---- MODULE Spec2Model ----
(***************************************************************************)
(* World Happiness Report ETL pipeline: the scripts that rewrite the       *)
(* per-year JSON artifacts (add_ids.py, clean_and_reorder.py,              *)
(* fix_json_data.py) and the two DML emitters (generate_dml_from_json.py   *)
(* in "Data Generate Dml" and in "Data_Generate_Dml").                     *)
(*                                                                         *)
(* Representation.  A JSON value is a record [t, n, s]: t is the Python    *)
(* type ("int", "float", "str", "none"), n the number (a float is held in  *)
(* thousandths, so 7.587 is 7587) and s the text of a string, a sequence   *)
(* of tokens: one token per character for decimal strings ("7,561" is      *)
(* <<"7", ",", "5", "6", "1">>), one token for a whole name.  A JSON       *)
(* object (Python dict, insertion ordered) is a sequence of <<key, value>> *)
(* pairs with distinct keys.                                               *)
(***************************************************************************)
EXTENDS Integers, Sequences, FiniteSets, TLC

\* ------------------------------------------------------------------ bounds
\* Number of year files of the run (a prefix of files_to_update).
NumYears == 2
\* Largest number of records in the whole input corpus.
MaxCorpus == 2
\* Number of countries of the dense-fill emitter (a prefix of COUNTRIES).
NumCountries == 2
\* Number of states of the random number generator.
RandMod == 4
\* the number of seeds the system may give the random generator
NumSeeds == 2
\* Number of calls of a function that is called on its own.
MaxCalls == 2

\* ------------------------------------------------------------------ values
PyInt(k) == [t |-> "int", n |-> k, s |-> <<>>]
PyFloat(m) == [t |-> "float", n |-> m, s |-> <<>>]
PyStr(q) == [t |-> "str", n |-> 0, s |-> q]
PyNone == [t |-> "none", n |-> 0, s |-> <<>>]
\* A string of one token (a name).
Text(w) == PyStr(<<w>>)

\* dict: key in entry
Has(entry, k) == \E i \in 1..Len(entry) : entry[i][1] = k
\* dict.get(k, default)
Get(entry, k, default) ==
    IF Has(entry, k)
    THEN entry[CHOOSE i \in 1..Len(entry) : entry[i][1] = k][2]
    ELSE default
\* a store that puts a new key in the place of the last pair
Put_over_last(entry, k, v) ==
    IF Has(entry, k)
    THEN [i \in 1..Len(entry) |-> IF entry[i][1] = k THEN <<k, v>> ELSE entry[i]]
    ELSE IF entry = <<>> THEN <<<<k, v>>>>
    ELSE [entry EXCEPT ![Len(entry)] = <<k, v>>]
\* a store that adds the pair at the end whether or not the key is there
Put_append(entry, k, v) == Append(entry, <<k, v>>)
\* dict[k] = v: an existing key keeps its place, a new key goes last.
Put(entry, k, v) ==
    IF Has(entry, k)
    THEN [i \in 1..Len(entry) |-> IF entry[i][1] = k THEN <<k, v>> ELSE entry[i]]
    ELSE Append(entry, <<k, v>>)
Keys(entry) == [i \in 1..Len(entry) |-> entry[i][1]]

\* ------------------------------------------------------------ year files
FirstYear == 2015
Years == FirstYear..(FirstYear + NumYears - 1)
\* files_to_update[i] is world_happiness_<YearOf(i)>.json
YearOf(i) == FirstYear + i - 1
LastYear == YearOf(NumYears)

\* --------------------------------------------------------- add_ids.py
REGION_MAP ==
    [r \in {"South Asia", "Central and Eastern Europe", "Sub-Saharan Africa",
            "Latin America and Caribbean", "Commonwealth of Independent States",
            "North America and ANZ", "Western Europe", "Southeast Asia",
            "East Asia", "Middle East and North Africa"} |->
        CASE r = "South Asia" -> 1
          [] r = "Central and Eastern Europe" -> 2
          [] r = "Sub-Saharan Africa" -> 3
          [] r = "Latin America and Caribbean" -> 4
          [] r = "Commonwealth of Independent States" -> 5
          [] r = "North America and ANZ" -> 6
          [] r = "Western Europe" -> 7
          [] r = "Southeast Asia" -> 8
          [] r = "East Asia" -> 9
          [] r = "Middle East and North Africa" -> 10]

\* REGION_MAP.get(region_name, 0)
RegionIdOf(region_name) ==
    IF region_name.t = "str" /\ Len(region_name.s) = 1
       /\ region_name.s[1] \in DOMAIN REGION_MAP
    THEN REGION_MAP[region_name.s[1]]
    ELSE 0

\* Mutants of get_country_id: one that assigns a new id on every call, one
\* that counts from 0.
get_country_id_no_memo(map, country_name) ==
    [x \in DOMAIN map \cup {country_name} |->
        IF x = country_name THEN Cardinality(DOMAIN map) + 1 ELSE map[x]]
get_country_id_from_zero(map, country_name) ==
    IF country_name \in DOMAIN map
    THEN map
    ELSE [x \in DOMAIN map \cup {country_name} |->
            IF x = country_name THEN Cardinality(DOMAIN map) ELSE map[x]]

\* The registry after get_country_id(country_name): a name not yet present is
\* given the next id, len(COUNTRY_ID_MAP) + 1.
get_country_id(map, country_name) ==
    IF country_name \in DOMAIN map
    THEN map
    ELSE [x \in DOMAIN map \cup {country_name} |->
            IF x = country_name THEN Cardinality(DOMAIN map) + 1 ELSE map[x]]

ID_FIELDS ==
    <<"region_id", "country_id", "report_id", "economic_id", "social_id",
      "perception_id">>

\* add_ids_to_entry(entry), with map the registry before the call.
add_ids_to_entry(map, entry) ==
    LET region_name == Get(entry, "region_name", PyStr(<<>>))
        country_name == Get(entry, "country_name", PyStr(<<>>))
        ranking == Get(entry, "ranking", PyInt(1))
        region_id == RegionIdOf(region_name)
        country_id == get_country_id(map, country_name)[country_name]
        report_id == (country_id * 1000) + ranking.n
        economic_id == (report_id * 10) + 1
        social_id == (report_id * 10) + 2
        perception_id == (report_id * 10) + 3
        e1 == Put(entry, "region_id", PyInt(region_id))
        e2 == Put(e1, "country_id", PyInt(country_id))
        e3 == Put(e2, "report_id", PyInt(report_id))
        e4 == Put(e3, "economic_id", PyInt(economic_id))
        e5 == Put(e4, "social_id", PyInt(social_id))
    IN  Put(e5, "perception_id", PyInt(perception_id))

\* ------------------------------------------------ decimal text <-> number
DigitTok == <<"0", "1", "2", "3", "4", "5", "6", "7", "8", "9">>
IsDigit(c) == \E d \in 1..10 : DigitTok[d] = c
DigitVal(c) == (CHOOSE d \in 1..10 : DigitTok[d] = c) - 1

\* str.replace(a, b) for one-character a and b
Replace(q, a, b) == [i \in 1..Len(q) |-> IF q[i] = a THEN b ELSE q[i]]

RECURSIVE NatToks(_)
NatToks(k) ==
    IF k < 10 THEN <<DigitTok[k + 1]>>
    ELSE NatToks(k \div 10) \o <<DigitTok[(k % 10) + 1]>>

Abs(k) == IF k < 0 THEN -k ELSE k
SignToks(k) == IF k < 0 THEN <<"-">> ELSE <<>>

\* f"{x:.3f}" of a float held in thousandths
Fixed3(m) ==
    LET a == Abs(m)
        f == a % 1000
    IN  SignToks(m) \o NatToks(a \div 1000) \o
        <<".", DigitTok[(f \div 100) + 1], DigitTok[((f \div 10) % 10) + 1],
          DigitTok[(f % 10) + 1]>>

\* str(x) of a float: the shortest text, with at least one decimal
FloatRepr(m) ==
    LET full == Fixed3(m)
        cut == IF m % 10 # 0 THEN 0 ELSE IF m % 100 # 0 THEN 1 ELSE 2
    IN  SubSeq(full, 1, Len(full) - cut)

\* str(value)
StrOf(v) ==
    CASE v.t = "str" -> v.s
      [] v.t = "float" -> FloatRepr(v.n)
      [] v.t = "int" -> SignToks(v.n) \o NatToks(Abs(v.n))
      [] v.t = "none" -> <<"None">>

RECURSIVE DigitsVal(_)
DigitsVal(q) ==
    IF q = <<>> THEN 0
    ELSE DigitsVal(SubSeq(q, 1, Len(q) - 1)) * 10 + DigitVal(q[Len(q)])

\* float(text): [ok, v] with v in thousandths; ok = FALSE is ValueError.
\* Text is [-]digits[.digits] (digits on at least one side of the point);
\* decimals after the third are below the resolution of the model.
ParseFloat(q) ==
    LET neg == Len(q) > 0 /\ q[1] = "-"
        body == IF neg THEN Tail(q) ELSE q
        dots == {i \in 1..Len(body) : body[i] = "."}
        dot == IF dots = {} THEN Len(body) + 1 ELSE CHOOSE i \in dots : TRUE
        ip == SubSeq(body, 1, dot - 1)
        fp == SubSeq(body, dot + 1, Len(body))
        wellFormed ==
            /\ Cardinality(dots) <= 1
            /\ \A i \in 1..Len(body) : i \in dots \/ IsDigit(body[i])
            /\ Len(ip) + Len(fp) > 0
        fp3 == SubSeq(fp \o <<"0", "0", "0">>, 1, 3)
        mag == DigitsVal(ip) * 1000 + DigitsVal(fp3)
    IN  IF wellFormed
        THEN [ok |-> TRUE, v |-> IF neg THEN -mag ELSE mag]
        ELSE [ok |-> FALSE, v |-> 0]

\* round(x / d) to the nearest integer.  A tie goes to the even neighbour; in
\* the code the binary error of the float decides a tie, which is below the
\* resolution of the model.
RoundDiv(x, d) ==
    LET q == x \div d
        r == x % d
    IN  IF 2 * r < d THEN q
        ELSE IF 2 * r > d THEN q + 1
        ELSE IF q % 2 = 0 THEN q ELSE q + 1

Max(a, b) == IF a >= b THEN a ELSE b
Min(a, b) == IF a <= b THEN a ELSE b

\* ------------------------------------------------- clean_and_reorder.py
FIELD_ORDER ==
    <<"ranking", "country_name", "region_name", "happiness_score",
      "gdp_per_capita", "social_support", "healthy_life_expectancy",
      "freedom_to_make_life_choices", "generosity",
      "perceptions_of_corruption", "dystopia_residual", "region_id",
      "country_id", "report_id", "economic_id", "social_id", "perception_id">>

\* int(hashlib.md5(seed.encode()).hexdigest(), 16) % 1000 for the seeds
\* f"{country_name}_{ranking}" of the model's records.
md5_mod_1000(seed) ==
    CASE seed = <<"Switzerland", "_", "1">> -> 646
      [] seed = <<"Switzerland", "_", "2">> -> 332
      [] seed = <<"Iceland", "_", "1">> -> 154
      [] seed = <<"Iceland", "_", "2">> -> 623
      [] seed = <<"Denmark", "_", "1">> -> 416
      [] seed = <<"Denmark", "_", "2">> -> 287
      [] seed = <<"Luxembourg", "_", "1", "2", "5">> -> 0
      [] seed = <<"Iceland", "_", "2", "0">> -> 999
      [] seed = <<"Switzerland", "_", "1", "4", "1">> -> 700

\* Mutant of calculate_dystopia_residual: the upper clamp is missing.
calculate_dystopia_residual_unclamped(entry) ==
    LET parsed == ParseFloat(Replace(StrOf(Get(entry, "happiness_score",
                                               PyStr(<<"0">>))), ",", "."))
        country_name == Get(entry, "country_name", PyStr(<<>>))
        ranking == Get(entry, "ranking", PyInt(1))
        seed == StrOf(country_name) \o <<"_">> \o StrOf(ranking)
        dystopia == Max(500, Max(1000, (parsed.v - 5000) * 3) + md5_mod_1000(seed) * 5)
    IN  IF parsed.ok
        THEN PyStr(Replace(Fixed3(RoundDiv(dystopia, 10)), ".", ","))
        ELSE PyStr(<<"0", ",", "1", "2", "3">>)

\* calculate_dystopia_residual(entry): the text of the residual; an
\* exception in the try block gives "0,123".
calculate_dystopia_residual(entry) ==
    LET parsed == ParseFloat(Replace(StrOf(Get(entry, "happiness_score",
                                               PyStr(<<"0">>))), ",", "."))
        happiness_score == parsed.v
        country_name == Get(entry, "country_name", PyStr(<<>>))
        ranking == Get(entry, "ranking", PyInt(1))
        seed == StrOf(country_name) \o <<"_">> \o StrOf(ranking)
        \* unique_factor * 0.5 and base, in units of 1e-4
        unique_half == md5_mod_1000(seed) * 5
        base == Max(1000, (happiness_score - 5000) * 3)
        dystopia == Max(500, Min(9500, base + unique_half))
    IN  IF parsed.ok
        THEN PyStr(Replace(Fixed3(RoundDiv(dystopia, 10)), ".", ","))
        ELSE PyStr(<<"0", ",", "1", "2", "3">>)

RECURSIVE reorder_from(_, _)
reorder_from(entry, i) ==
    IF i > Len(FIELD_ORDER) THEN <<>>
    ELSE LET field == FIELD_ORDER[i]
             rest == reorder_from(entry, i + 1)
         IN  IF field = "dystopia_residual"
             THEN <<<<field, calculate_dystopia_residual(entry)>>>> \o rest
             ELSE IF Has(entry, field)
             THEN <<<<field, Get(entry, field, PyNone)>>>> \o rest
             ELSE rest

\* a clean_and_reorder_entry that stores the residual in the entry it was given
clean_and_reorder_entry_in_place(entry) ==
    Put(entry, "dystopia_residual", calculate_dystopia_residual(entry))
clean_and_reorder_entry(entry) == reorder_from(entry, 1)

\* a process_files that writes cleaned_data last record first
clean_file_reversed(entries) ==
    [i \in 1..Len(entries) |-> clean_and_reorder_entry(entries[Len(entries) + 1 - i])]
\* process_files, one file: cleaned_data
clean_file(entries) ==
    [i \in 1..Len(entries) |-> clean_and_reorder_entry(entries[i])]

\* Mutant of fix_decimal_format: the text is returned as it is.
fix_decimal_format_unchanged(value) == value
\* Mutant of fix_decimal_format: the two separators are exchanged.
fix_decimal_format_swap(value) ==
    IF value.t = "str"
    THEN PyStr([i \in 1..Len(value.s) |->
                  IF value.s[i] = "," THEN "."
                  ELSE IF value.s[i] = "." THEN "," ELSE value.s[i]])
    ELSE value

\* --------------------------------------------------------- fix_json_data.py
fix_decimal_format(value) ==
    IF value.t = "str" THEN PyStr(Replace(value.s, ",", ".")) ELSE value

\* the fixed_entry literal of fix_json_file
fixed_entry(entry) ==
    << <<"ranking", Get(entry, "ranking", PyNone)>>,
       <<"country_name", Get(entry, "country_name", PyNone)>>,
       <<"region_name", Get(entry, "region_name", PyNone)>>,
       <<"happiness_score",
         fix_decimal_format(Get(entry, "happiness_score", PyStr(<<"0">>)))>>,
       <<"gdp_per_capita",
         fix_decimal_format(Get(entry, "gdp_per_capita", PyStr(<<"0">>)))>>,
       <<"social_support",
         fix_decimal_format(Get(entry, "social_support", PyStr(<<"0">>)))>>,
       <<"healthy_life_expectancy",
         Get(entry, "healthy_life_expectancy", PyInt(0))>>,
       <<"freedom_to_make_life_choices",
         fix_decimal_format(Get(entry, "freedom_to_make_life_choices",
                                PyStr(<<"0">>)))>>,
       <<"generosity",
         fix_decimal_format(Get(entry, "generosity", PyStr(<<"0">>)))>>,
       <<"perceptions_of_corruption",
         fix_decimal_format(Get(entry, "perceptions_of_corruption",
                                PyStr(<<"0">>)))>>,
       <<"dystopia_residual",
         fix_decimal_format(Get(entry, "dystopia_residual", PyStr(<<"0">>)))>>,
       <<"region_id", Get(entry, "region_id", PyNone)>>,
       <<"country_id", Get(entry, "country_id", PyNone)>>,
       <<"report_id", Get(entry, "report_id", PyNone)>>,
       <<"economic_id", Get(entry, "economic_id", PyNone)>>,
       <<"social_id", Get(entry, "social_id", PyNone)>>,
       <<"perception_id", Get(entry, "perception_id", PyNone)>> >>

\* entry.get('region_id') == 0
IsZero(v) == v.t \in {"int", "float"} /\ v.n = 0
\* Mutant of region_is_zero: no entry is skipped.
region_is_zero_never(entry) == FALSE

region_is_zero(entry) == IsZero(Get(entry, "region_id", PyNone))

\* fix_json_file, the loop: fixed_data
RECURSIVE fixed_data(_)
fixed_data(entries) ==
    IF entries = <<>> THEN <<>>
    ELSE IF region_is_zero(Head(entries))
    THEN fixed_data(Tail(entries))
    ELSE <<fixed_entry(Head(entries))>> \o fixed_data(Tail(entries))

\* ------------------------------ "Data Generate Dml"/generate_dml_from_json.py
REGIONS ==
    <<"South Asia", "Central and Eastern Europe", "Sub-Saharan Africa",
      "Latin America and Caribbean", "Commonwealth of Independent States",
      "North America and ANZ", "Western Europe", "Southeast Asia", "East Asia",
      "Middle East and North Africa">>

\* round(x, 2) and round(x, 1) of a float held in thousandths
Round2(m) == RoundDiv(m, 10) * 10
Round1(m) == RoundDiv(m, 100) * 100

\* str(value).lower() == 'none'
IsNoneText(v) == v.t = "none" \/ (v.t = "str" /\ v.s \in {<<"None">>, <<"none">>})

\* safe_float(value, default), in thousandths
safe_float(value, default) ==
    LET parsed == ParseFloat(Replace(StrOf(value), ",", "."))
    IN  IF IsNoneText(value) THEN default
        ELSE IF parsed.ok THEN parsed.v ELSE default

\* safe_int(value, default): int() cuts towards zero
safe_int(value, default) ==
    LET parsed == ParseFloat(Replace(StrOf(value), ",", "."))
    IN  IF IsNoneText(value) THEN default
        ELSE IF parsed.ok
        THEN (IF parsed.v < 0 THEN -((-parsed.v) \div 1000) ELSE parsed.v \div 1000)
        ELSE default

\* escape_string(s): every quote is doubled
RECURSIVE DoubleQuotes(_)
DoubleQuotes(q) ==
    IF q = <<>> THEN <<>>
    ELSE (IF Head(q) = "'" THEN <<"'", "'">> ELSE <<Head(q)>>)
         \o DoubleQuotes(Tail(q))
escape_string(v) == IF v.t = "none" THEN <<>> ELSE DoubleQuotes(StrOf(v))

\* Python truth of a value: None, 0 and "" are false.
Truthy(v) ==
    CASE v.t = "none" -> FALSE
      [] v.t = "str" -> v.s # <<>>
      [] OTHER -> v.n # 0

\* The entries of all loaded years from y on, in the order extract_countries
\* scans them (years in the order loaded: sorted file names).
RECURSIVE AllEntries(_, _)
AllEntries(all_data, y) ==
    IF y > LastYear THEN <<>>
    ELSE (IF y \in DOMAIN all_data THEN all_data[y] ELSE <<>>)
            \o AllEntries(all_data, y + 1)

\* extract_countries: country_id |-> [country_name, region_id]; the first
\* record of a country_id wins.
\* Mutant of countries_from: the last record of a country_id wins.
RECURSIVE countries_from_last_wins(_, _)
countries_from_last_wins(entries, countries) ==
    IF entries = <<>> THEN countries
    ELSE LET entry == Head(entries)
             country_name == Get(entry, "country_name", PyNone)
             country_id == Get(entry, "country_id", PyNone)
             region_id == Get(entry, "region_id", PyNone)
         IN  IF Truthy(country_name) /\ Truthy(country_id)
             THEN countries_from_last_wins(Tail(entries),
                    [c \in DOMAIN countries \cup {country_id.n} |->
                        IF c = country_id.n
                        THEN [country_name |-> country_name, region_id |-> region_id]
                        ELSE countries[c]])
             ELSE countries_from_last_wins(Tail(entries), countries)

RECURSIVE countries_from(_, _)
countries_from(entries, countries) ==
    IF entries = <<>> THEN countries
    ELSE LET entry == Head(entries)
             country_name == Get(entry, "country_name", PyNone)
             country_id == Get(entry, "country_id", PyNone)
             region_id == Get(entry, "region_id", PyNone)
         IN  IF Truthy(country_name) /\ Truthy(country_id)
                /\ country_id.n \notin DOMAIN countries
             THEN countries_from(Tail(entries),
                    [c \in DOMAIN countries \cup {country_id.n} |->
                        IF c = country_id.n
                        THEN [country_name |-> country_name, region_id |-> region_id]
                        ELSE countries[c]])
             ELSE countries_from(Tail(entries), countries)

extract_countries(all_data) ==
    countries_from(AllEntries(all_data, FirstYear), [c \in {} |-> 0])

\* Mutant of Sorted: descending.
RECURSIVE Sorted_descending(_)
Sorted_descending(ids) ==
    IF ids = {} THEN <<>>
    ELSE LET hi == CHOOSE a \in ids : \A b \in ids : a >= b
         IN  <<hi>> \o Sorted_descending(ids \ {hi})

\* sorted(ids)
RECURSIVE Sorted(_)
Sorted(ids) ==
    IF ids = {} THEN <<>>
    ELSE LET lo == CHOOSE a \in ids : \A b \in ids : a <= b
         IN  <<lo>> \o Sorted(ids \ {lo})

\* the first entry of the year with this country_id; <<>> stands for None
find_entry(entries, country_id) ==
    LET hits == {i \in 1..Len(entries) :
                    LET c == Get(entries[i], "country_id", PyNone)
                    IN  c.t \in {"int", "float"} /\ c.n = country_id}
    IN  IF hits = {} THEN <<>>
        ELSE entries[CHOOSE i \in hits : \A j \in hits : i <= j]

\* Mutant of happiness_record: the report_id of the entry is kept.
happiness_record_entry_id(report_id, country_id, year, entry) ==
    [report_id |-> IF Has(entry, "report_id") THEN Get(entry, "report_id", PyNone).n
                   ELSE report_id,
     country_id |-> country_id, year |-> year,
     ranking |-> safe_int(Get(entry, "ranking", PyInt(0)), 0),
     happiness_score |-> Round2(safe_float(Get(entry, "happiness_score", PyInt(0)), 0)),
     dystopia_residual |-> safe_float(Get(entry, "dystopia_residual", PyFloat(100)), 0)]

\* The four records generate_dml appends for one (country, year) with an entry.
happiness_record(report_id, country_id, year, entry) ==
    [report_id |-> report_id, country_id |-> country_id, year |-> year,
     ranking |-> safe_int(Get(entry, "ranking", PyInt(0)), 0),
     happiness_score |-> Round2(safe_float(Get(entry, "happiness_score", PyInt(0)), 0)),
     dystopia_residual |-> safe_float(Get(entry, "dystopia_residual", PyFloat(100)), 0)]
\* Mutant of economic_record: economic_id is the first report_id on every row.
economic_record_first_id(report_id, entry) ==
    [economic_id |-> 10001, report_id |-> report_id,
     gdp_per_capita |-> Round2(safe_float(Get(entry, "gdp_per_capita", PyInt(0)), 0))]

economic_record(report_id, entry) ==
    [economic_id |-> report_id, report_id |-> report_id,
     gdp_per_capita |-> Round2(safe_float(Get(entry, "gdp_per_capita", PyInt(0)), 0))]
social_record(report_id, entry) ==
    [social_id |-> report_id + 10000, report_id |-> report_id,
     social_support |-> Round2(safe_float(Get(entry, "social_support", PyInt(0)), 0)),
     healthy_life_expectancy |->
        Round1(safe_float(Get(entry, "healthy_life_expectancy", PyInt(0)), 0)),
     freedom_to_make_life_choices |->
        Round2(safe_float(Get(entry, "freedom_to_make_life_choices", PyInt(0)), 0))]
\* Mutant of perception_record: report_id carries the offset of perception_id.
perception_record_offset(report_id, entry) ==
    [perception_id |-> report_id + 20000, report_id |-> report_id + 20000,
     generosity |-> Round2(safe_float(Get(entry, "generosity", PyInt(0)), 0)),
     perceptions_of_corruption |->
        Round2(safe_float(Get(entry, "perceptions_of_corruption", PyInt(0)), 0))]

perception_record(report_id, entry) ==
    [perception_id |-> report_id + 20000, report_id |-> report_id,
     generosity |-> Round2(safe_float(Get(entry, "generosity", PyInt(0)), 0)),
     perceptions_of_corruption |->
        Round2(safe_float(Get(entry, "perceptions_of_corruption", PyInt(0)), 0))]

NoRecords == [happiness |-> <<>>, economic |-> <<>>, social |-> <<>>, perception |-> <<>>]

\* record_counter = 10001
RECORD_COUNTER_START == 10001

\* The value of an expression that is computed once: the element of a
\* one-element set.
Pick(S) == CHOOSE x \in S : TRUE

\* generate_dml, the loops over sorted_country_ids (from position ci) and the
\* sorted years (from year): acc are the four record lists so far,
\* record_counter the next report_id.
RECURSIVE collect_records(_, _, _, _, _)
collect_records(all_data, ids, ci, year, st) ==
    IF ci > Len(ids) THEN st.acc
    ELSE IF year > LastYear
    THEN collect_records(all_data, ids, ci + 1, FirstYear, st)
    ELSE IF year \notin DOMAIN all_data
    THEN collect_records(all_data, ids, ci, year + 1, st)
    ELSE Pick({
            IF entry # <<>>
            THEN collect_records(all_data, ids, ci, year + 1,
                   [record_counter |-> s.record_counter + 1,
                    acc |-> [happiness |-> Append(s.acc.happiness,
                                 happiness_record(s.record_counter, ids[ci], year, entry)),
                             economic |-> Append(s.acc.economic,
                                 economic_record(s.record_counter, entry)),
                             social |-> Append(s.acc.social,
                                 social_record(s.record_counter, entry)),
                             perception |-> Append(s.acc.perception,
                                 perception_record(s.record_counter, entry))]])
            ELSE collect_records(all_data, ids, ci, year + 1, s)
            : s \in {st}, entry \in {find_entry(all_data[year], ids[ci])} })

\* generate_dml(all_data): the value rows of the six INSERT statements
generate_dml(all_data) ==
    LET countries == extract_countries(all_data)
        sorted_country_ids == Sorted(DOMAIN countries)
        recs == collect_records(all_data, sorted_country_ids, 1, FirstYear,
                    [record_counter |-> RECORD_COUNTER_START, acc |-> NoRecords])
    IN  [region |-> [i \in 1..Len(REGIONS) |->
                        [region_id |-> i, region_name |-> DoubleQuotes(<<REGIONS[i]>>)]],
         country |-> [i \in 1..Len(sorted_country_ids) |->
                        LET info == countries[sorted_country_ids[i]]
                        IN  [country_id |-> sorted_country_ids[i],
                             country_name |-> escape_string(info.country_name),
                             region_id |-> info.region_id]],
         happiness_report |-> recs.happiness,
         economic_indicator |-> recs.economic,
         social_indicator |-> recs.social,
         perception_indicator |-> recs.perception]

NoSql ==
    [region |-> <<>>, country |-> <<>>, happiness_report |-> <<>>,
     economic_indicator |-> <<>>, social_indicator |-> <<>>,
     perception_indicator |-> <<>>]

\* ---------------------------- Data_Generate_Dml/generate_dml_from_json.py
\* The head of the 171-entry table: (country_id, country_name, region_id).
COUNTRIES_TABLE ==
    << <<1, "Switzerland", 7>>, <<2, "Iceland", 7>>, <<3, "Denmark", 7>>,
       <<4, "Norway", 7>>, <<5, "Canada", 6>> >>
\* Mutant of COUNTRIES: the first id is written twice.
COUNTRIES_repeated_id ==
    [i \in 1..NumCountries |->
        IF i = 2 THEN <<1, COUNTRIES_TABLE[i][2], COUNTRIES_TABLE[i][3]>>
        ELSE COUNTRIES_TABLE[i]]

COUNTRIES == SubSeq(COUNTRIES_TABLE, 1, NumCountries)
\* YEARS = list(range(2015, 2025)), cut to the years of the model
YEARS == [i \in 1..NumYears |-> YearOf(i)]

\* load_json_data: year |-> {country_name: entry}; of two entries with one
\* name the later one stays.
load_json_data(disk) ==
    [y \in DOMAIN disk |->
        LET entries == disk[y]
            names == {Get(entries[i], "country_name", PyStr(<<>>)) : i \in 1..Len(entries)}
        IN  [nm \in names |->
                entries[CHOOSE i \in 1..Len(entries) :
                    /\ Get(entries[i], "country_name", PyStr(<<>>)) = nm
                    /\ \A j \in 1..Len(entries) :
                          Get(entries[j], "country_name", PyStr(<<>>)) = nm => j <= i]]]

\* The random module: the generator's state after one draw, and the draws;
\* the state rng stands for random() = rng / RandMod.
NextRand(rng) == (rng * 5 + 3) % RandMod
\* random.uniform(lo, hi), in thousandths
uniform(rng, lo, hi) == lo + ((hi - lo) * rng) \div RandMod
\* random.randint(lo, hi)
randint(rng, lo, hi) == lo + ((hi - lo + 1) * rng) \div RandMod

\* float(value): [ok, v]
FloatOf(value) ==
    CASE value.t = "str" -> ParseFloat(value.s)
      [] value.t = "float" -> [ok |-> TRUE, v |-> value.n]
      [] value.t = "int" -> [ok |-> TRUE, v |-> value.n * 1000]
      [] OTHER -> [ok |-> FALSE, v |-> 0]
\* int(value): [ok, v]; a string must be an integer literal
IntOf(value) ==
    CASE value.t = "str" ->
            LET p == ParseFloat(value.s)
            IN  [ok |-> p.ok /\ \A i \in 1..Len(value.s) : value.s[i] # ".",
                 v |-> IF p.v < 0 THEN -((-p.v) \div 1000) ELSE p.v \div 1000]
      [] value.t = "float" ->
            [ok |-> TRUE,
             v |-> IF value.n < 0 THEN -((-value.n) \div 1000) ELSE value.n \div 1000]
      [] value.t = "int" -> [ok |-> TRUE, v |-> value.n]
      [] OTHER -> [ok |-> FALSE, v |-> 0]

\* safe_float(value, default_min, default_max) of the dense-fill emitter:
\* [v, rng], the value and the generator's state afterwards.
dense_safe_float(value, default_min, default_max, rng) ==
    IF value.t # "none" /\ FloatOf(value).ok
    THEN [v |-> FloatOf(value).v, rng |-> rng]
    ELSE [v |-> uniform(rng, default_min, default_max), rng |-> NextRand(rng)]

\* safe_int(value, default_min, default_max) of the dense-fill emitter
dense_safe_int(value, default_min, default_max, rng) ==
    IF value.t # "none" /\ IntOf(value).ok
    THEN [v |-> IntOf(value).v, rng |-> rng]
    ELSE [v |-> randint(rng, default_min, default_max), rng |-> NextRand(rng)]

\* get_country_data: the keys of the dict literal in the order they are
\* evaluated, with the conversion, the range of the random default and the
\* digits of the outer round().
DATA_FIELDS ==
    << <<"ranking", "int", 1, 171, 3>>,
       <<"happiness_score", "float", 3000, 7500, 2>>,
       <<"dystopia_residual", "float", 100, 200, 3>>,
       <<"gdp_per_capita", "float", 300, 1500, 2>>,
       <<"social_support", "float", 500, 1500, 2>>,
       <<"healthy_life_expectancy", "float", 300, 1000, 2>>,
       <<"freedom_to_make_life_choices", "float", 200, 600, 2>>,
       <<"generosity", "float", -100, 300, 3>>,
       <<"perceptions_of_corruption", "float", 50, 500, 3>> >>

\* the values of the fields from position i on; entry = <<>> stands for "not
\* found": every value is drawn. st = [rng, vals].
RECURSIVE draw_values(_, _, _)
draw_values(entry, i, st) ==
    IF i > Len(DATA_FIELDS) THEN st
    ELSE Pick({ Pick({
            draw_values(entry, i + 1,
                [rng |-> r.rng,
                 vals |-> Append(s.vals,
                             IF DATA_FIELDS[i][5] = 2 THEN Round2(r.v) ELSE r.v)])
            : r \in {LET f == DATA_FIELDS[i]
                         value == IF entry = <<>> THEN PyNone ELSE Get(entry, f[1], PyNone)
                     IN  IF f[2] = "int"
                         THEN dense_safe_int(value, f[3], f[4], s.rng)
                         ELSE dense_safe_float(value, f[3], f[4], s.rng)} })
            : s \in {st} })

country_values(entry, rng) ==
    Pick({ [ranking |-> d.vals[1],
            happiness_score |-> d.vals[2],
            dystopia_residual |-> d.vals[3],
            gdp_per_capita |-> d.vals[4],
            social_support |-> d.vals[5],
            healthy_life_expectancy |-> d.vals[6],
            freedom_to_make_life_choices |-> d.vals[7],
            generosity |-> d.vals[8],
            perceptions_of_corruption |-> d.vals[9],
            rng |-> d.rng]
           : d \in {draw_values(entry, 1, [rng |-> rng, vals |-> <<>>])} })

\* get_country_data(json_data, country_name, year)
get_country_data(json_data, country_name, year, rng) ==
    IF year \in DOMAIN json_data /\ Text(country_name) \in DOMAIN json_data[year]
    THEN country_values(json_data[year][Text(country_name)], rng)
    ELSE country_values(<<>>, rng)

\* report_id = 10001
REPORT_ID_START == 10001

\* generate_dml of the dense-fill emitter, the loops over COUNTRIES (from
\* position ci) and YEARS (from position yi).
RECURSIVE dense_records(_, _, _, _)
dense_records(json_data, ci, yi, st) ==
    IF ci > Len(COUNTRIES) THEN st.acc
    ELSE IF yi > Len(YEARS) THEN dense_records(json_data, ci + 1, 1, st)
    ELSE Pick({ Pick({
            dense_records(json_data, ci, yi + 1,
                [report_id |-> s.report_id + 1,
                 rng |-> d.rng,
                 acc |-> [happiness |-> Append(s.acc.happiness,
                              [report_id |-> s.report_id, country_id |-> COUNTRIES[ci][1],
                               year |-> YEARS[yi], ranking |-> d.ranking,
                               happiness_score |-> d.happiness_score,
                               dystopia_residual |-> d.dystopia_residual]),
                          economic |-> Append(s.acc.economic,
                              [economic_id |-> s.report_id, report_id |-> s.report_id,
                               gdp_per_capita |-> d.gdp_per_capita]),
                          social |-> Append(s.acc.social,
                              [social_id |-> s.report_id + 10000,
                               report_id |-> s.report_id,
                               social_support |-> d.social_support,
                               healthy_life_expectancy |-> d.healthy_life_expectancy,
                               freedom_to_make_life_choices |->
                                   d.freedom_to_make_life_choices]),
                          perception |-> Append(s.acc.perception,
                              [perception_id |-> s.report_id + 20000,
                               report_id |-> s.report_id,
                               generosity |-> d.generosity,
                               perceptions_of_corruption |->
                                   d.perceptions_of_corruption])]])
            : d \in {get_country_data(json_data, COUNTRIES[ci][2], YEARS[yi], s.rng)} })
            : s \in {st} })

\* generate_dml() of the dense-fill emitter with the generator in state seed.
dense_generate_dml(disk, seed) ==
    LET json_data == load_json_data(disk)
        recs == dense_records(json_data, 1, 1,
                    [report_id |-> REPORT_ID_START, rng |-> seed,
                     acc |-> NoRecords])
    IN  [region |-> [i \in 1..Len(REGIONS) |->
                        [region_id |-> i, region_name |-> DoubleQuotes(<<REGIONS[i]>>)]],
         country |-> [i \in 1..Len(COUNTRIES) |->
                        [country_id |-> COUNTRIES[i][1],
                         country_name |-> DoubleQuotes(<<COUNTRIES[i][2]>>),
                         region_id |-> PyInt(COUNTRIES[i][3])]],
         happiness_report |-> recs.happiness,
         economic_indicator |-> recs.economic,
         social_indicator |-> recs.social,
         perception_indicator |-> recs.perception]

\* ------------------------------------------------------------ input corpus
\* A record of a year file: the fields process_csv_file writes, in the order
\* of CSV_TO_JSON_MAPPING, then dystopia_residual.
RawEntry(ranking, country, region, score, gdp, social, health, freedom, generosity, corruption, residual) ==
    << <<"ranking", ranking>>, <<"country_name", country>>,
       <<"region_name", region>>, <<"happiness_score", score>>,
       <<"gdp_per_capita", gdp>>, <<"social_support", social>>,
       <<"healthy_life_expectancy", health>>,
       <<"freedom_to_make_life_choices", freedom>>,
       <<"generosity", generosity>>,
       <<"perceptions_of_corruption", corruption>>,
       <<"dystopia_residual", residual>> >>

\* Records the year files are drawn from: a mapped and an unmapped region,
\* one country with two rankings, numbers as floats and as decimal-comma or
\* unparseable strings.
SampleEntries ==
    { RawEntry(PyInt(1), Text("Switzerland"), Text("Western Europe"),
               PyFloat(7587), PyFloat(1397), PyFloat(1350), PyFloat(941),
               PyFloat(666), PyFloat(297), PyFloat(420), PyFloat(2517)),
      RawEntry(PyInt(2), Text("Iceland"), PyStr(<<>>),
               PyStr(<<"7", ",", "5", "6", "1">>), PyStr(<<"1", ",", "3">>),
               PyFloat(1402), PyFloat(948), PyStr(<<"0", ",", "6", "2", "9">>),
               PyFloat(436), PyFloat(141), PyFloat(2702)),
      RawEntry(PyInt(2), Text("Switzerland"), Text("Western Europe"),
               PyStr(<<"n", "/", "a">>), PyFloat(1527), PyFloat(1146),
               PyFloat(863), PyFloat(586), PyFloat(281), PyFloat(412),
               PyStr(<<"0", ",", "1">>)) }

SeqsUpTo(S, k) == UNION {[1..j -> S] : j \in 0..k}
RECURSIVE TotalLen(_, _)
TotalLen(f, ys) ==
    IF ys = {} THEN 0
    ELSE LET y == CHOOSE z \in ys : TRUE IN Len(f[y]) + TotalLen(f, ys \ {y})
\* entries.sort(key=lambda x: x.get('ranking', 999))
SortedByRanking(entries) ==
    \A i \in 1..Len(entries), j \in 1..Len(entries) :
        i < j => Get(entries[i], "ranking", PyInt(999)).n
                    <= Get(entries[j], "ranking", PyInt(999)).n
\* The year files of Data/Json_Bersih before the pipeline runs.
Corpora ==
    {f \in [Years -> SeqsUpTo(SampleEntries, MaxCorpus)] :
        /\ TotalLen(f, Years) <= MaxCorpus
        /\ \A y \in Years : SortedByRanking(f[y])}

\* process_files of add_ids.py over a whole corpus, from an empty registry:
\* st = [map, out] within a file, [map, files] over the year files.
RECURSIVE tag_from(_, _, _)
tag_from(entries, i, st) ==
    IF i > Len(entries) THEN st
    ELSE Pick({
            tag_from(entries, i + 1,
                [map |-> get_country_id(s.map,
                            Get(entries[i], "country_name", PyStr(<<>>))),
                 out |-> Append(s.out, add_ids_to_entry(s.map, entries[i]))])
            : s \in {st} })
RECURSIVE tag_years(_, _, _)
tag_years(corpus, i, st) ==
    IF i > NumYears THEN st.files
    ELSE Pick({ Pick({
            tag_years(corpus, i + 1,
                [map |-> t.map, files |-> [s.files EXCEPT ![YearOf(i)] = t.out]])
            : t \in {tag_from(corpus[YearOf(i)], 1, [map |-> s.map, out |-> <<>>])} })
            : s \in {st} })
\* The corpus after add_ids.py, and after add_ids.py and fix_json_file.
TaggedCorpus(corpus) == tag_years(corpus, 1, [map |-> [x \in {} |-> 0], files |-> corpus])
FilteredCorpus(corpus) ==
    Pick({ [y \in Years |-> fixed_data(t[y])] : t \in {TaggedCorpus(corpus)} })

\* ------------------------------------------------------------------- state
VARIABLES
    files,           \* Data/Json_Bersih: year |-> list of records on disk
    json,            \* Data/Json: year |-> list of records on disk
    status,          \* directory |-> year |-> "ok", "missing" or "torn"
    raw,             \* the corpus the directories were filled from (history)
    pc,              \* the script that is running and its position
    fileIdx,         \* index into the file list of the running script
    data,            \* add_ids.process_files: the loaded list
    entryIdx,        \* add_ids.process_files: next entry of data
    COUNTRY_ID_MAP,  \* add_ids: the name -> id registry of the process
    tagged,          \* years of Json_Bersih written by the latest add_ids run
    cleaned,         \* years of Json_Bersih filtered since they were tagged
    lastWriter,      \* year |-> the script that wrote the Json_Bersih file last
    jsonFixed,       \* years of Data/Json written by fix_json_data
    log,             \* what the running (or last) script has printed
    totals,          \* total_entries and total_removed of the running script
    summary,         \* the summary the last script printed at its end
    sql,             \* DML_whr_v2_generated.sql: the rows of the six INSERTs
    sql_complete,    \* DML_whr_v2_complete.sql: the rows of the six INSERTs
    resEntry,        \* a function called on its own: the record passed next
    resIn,           \* a function called on its own: the records passed so far
    resOut           \* a function called on its own: the values returned so far

vars ==
    <<files, json, status, raw, pc, fileIdx, data, entryIdx, COUNTRY_ID_MAP, tagged,
      cleaned, lastWriter, jsonFixed, log, totals, summary, sql, sql_complete,
      resEntry, resIn, resOut>>
resVars == <<resEntry, resIn, resOut>>
sqlVars == <<sql, sql_complete>>
\* what belongs to Data/Json_Bersih and to Data/Json
bersihVars == <<files, tagged, cleaned, lastWriter>>
jsonVars == <<json, jsonFixed>>
\* the variables of a run of add_ids.py
addIdsVars == <<data, entryIdx, COUNTRY_ID_MAP>>

EmptyMap == [x \in {} |-> 0]
NoTotals == [entries |-> 0, removed |-> 0]
NoSummary == [stage |-> "none", entries |-> 0, removed |-> 0, files |-> 0, countries |-> 0]
AllOk == [d \in {"Json_Bersih", "Json"} |-> [y \in Years |-> "ok"]]
\* the year files of a directory that json.load reads
Loaded(dir, st) == [y \in {x \in Years : st[x] = "ok"} |-> dir[y]]
\* the year files of a directory that exist (glob, os.path.exists)
Existing(st) == {y \in Years : st[y] # "missing"}

\* The state the scripts start from.  Either both directories hold the corpus
\* as the ingestor wrote it, or Data/Json holds it with ids and
\* Data/Json_Bersih holds it with ids and filtered.
InitDirs(corpus) ==
    /\ raw = corpus
    /\ \/ /\ files = corpus
          /\ json = corpus
          /\ tagged = {}
          /\ cleaned = {}
          /\ lastWriter = [y \in Years |-> "ingest"]
       \/ /\ files = FilteredCorpus(corpus)
          /\ json = TaggedCorpus(corpus)
          /\ tagged = Years
          /\ cleaned = Years
          /\ lastWriter = [y \in Years |-> "fix"]
InitRest ==
    /\ pc = "idle"
    /\ fileIdx = 0
    /\ data = <<>>
    /\ entryIdx = 0
    /\ COUNTRY_ID_MAP = EmptyMap
    /\ jsonFixed = {}
    /\ log = {}
    /\ totals = NoTotals
    /\ summary = NoSummary
    /\ sql = NoSql
    /\ sql_complete = NoSql
    /\ resEntry = <<>>
    /\ resIn = <<>>
    /\ resOut = <<>>

Init ==
    /\ \E corpus \in Corpora : InitDirs(corpus)
    /\ status = AllOk
    /\ InitRest

\* python add_ids.py: the module is loaded, COUNTRY_ID_MAP = {}.
StartAddIds ==
    /\ pc = "idle"
    /\ pc' = "add_ids:file"
    /\ fileIdx' = 1
    /\ COUNTRY_ID_MAP' = EmptyMap
    /\ tagged' = {}
    /\ log' = {}
    /\ totals' = NoTotals
    /\ summary' = NoSummary
    /\ UNCHANGED <<files, cleaned, lastWriter, data, entryIdx, raw, status>>
    /\ UNCHANGED <<jsonVars, sqlVars, resVars>>

\* process_files: json.load of the next file.
AddIdsLoad ==
    /\ pc = "add_ids:file"
    /\ fileIdx <= NumYears
    /\ status["Json_Bersih"][YearOf(fileIdx)] = "ok"
    /\ data' = files[YearOf(fileIdx)]
    /\ entryIdx' = 1
    /\ pc' = "add_ids:entry"
    /\ UNCHANGED <<bersihVars, jsonVars, sqlVars, resVars>>
    /\ UNCHANGED <<raw, status, fileIdx, COUNTRY_ID_MAP, log, totals, summary>>

\* process_files: add_ids_to_entry(entry) for the next entry of data.
AddIdsEntry ==
    /\ pc = "add_ids:entry"
    /\ entryIdx <= Len(data)
    /\ LET entry == data[entryIdx]
           country_name == Get(entry, "country_name", PyStr(<<>>))
       IN  /\ data' = [data EXCEPT ![entryIdx] = add_ids_to_entry(COUNTRY_ID_MAP, entry)]
           /\ COUNTRY_ID_MAP' = get_country_id(COUNTRY_ID_MAP, country_name)
    /\ entryIdx' = entryIdx + 1
    /\ UNCHANGED <<bersihVars, jsonVars, sqlVars, resVars>>
    /\ UNCHANGED <<raw, status, pc, fileIdx, log, totals, summary>>

\* process_files: json.dump of data over the file it was read from, the line
\* printed for the file, total_entries += len(data).
AddIdsWrite ==
    /\ pc = "add_ids:entry"
    /\ entryIdx > Len(data)
    /\ LET y == YearOf(fileIdx)
       IN  /\ files' = [files EXCEPT ![y] = data]
           /\ tagged' = tagged \cup {y}
           /\ cleaned' = cleaned \ {y}
           /\ lastWriter' = [lastWriter EXCEPT ![y] = "add_ids"]
           /\ log' = log \cup {<<"processed", y>>}
    /\ totals' = [totals EXCEPT !.entries = @ + Len(data)]
    /\ fileIdx' = fileIdx + 1
    /\ data' = <<>>
    /\ entryIdx' = 0
    /\ pc' = "add_ids:file"
    /\ UNCHANGED <<jsonVars, sqlVars, resVars>>
    /\ UNCHANGED <<raw, status, COUNTRY_ID_MAP, summary>>

\* process_files: the loop over files_to_update is over; the totals are
\* printed.
AddIdsFinish ==
    /\ pc = "add_ids:file"
    /\ fileIdx > NumYears
    /\ pc' = "idle"
    /\ fileIdx' = 0
    /\ summary' = [stage |-> "add_ids", entries |-> totals.entries, removed |-> 0,
                   files |-> 0, countries |-> Cardinality(DOMAIN COUNTRY_ID_MAP)]
    /\ totals' = NoTotals
    /\ UNCHANGED <<bersihVars, jsonVars, sqlVars, resVars, addIdsVars>>
    /\ UNCHANGED <<raw, status, log>>

\* python clean_and_reorder.py
StartClean ==
    /\ pc = "idle"
    /\ pc' = "clean:file"
    /\ fileIdx' = 1
    /\ log' = {}
    /\ totals' = NoTotals
    /\ summary' = NoSummary
    /\ UNCHANGED <<bersihVars, jsonVars, sqlVars, resVars, addIdsVars>>
    /\ UNCHANGED <<raw, status>>

\* clean_and_reorder.process_files, one file: load, clean every entry, dump.
CleanFile ==
    /\ pc = "clean:file"
    /\ fileIdx <= NumYears
    /\ status["Json_Bersih"][YearOf(fileIdx)] = "ok"
    /\ LET y == YearOf(fileIdx)
       IN  /\ files' = [files EXCEPT ![y] = clean_file(files[y])]
           /\ lastWriter' = [lastWriter EXCEPT ![y] = "clean"]
           /\ log' = log \cup {<<"processed", y>>}
    /\ fileIdx' = fileIdx + 1
    /\ UNCHANGED <<jsonVars, sqlVars, resVars, addIdsVars>>
    /\ UNCHANGED <<raw, status, pc, tagged, cleaned, totals, summary>>

CleanFinish ==
    /\ pc = "clean:file"
    /\ fileIdx > NumYears
    /\ pc' = "idle"
    /\ fileIdx' = 0
    /\ UNCHANGED <<bersihVars, jsonVars, sqlVars, resVars, addIdsVars>>
    /\ UNCHANGED <<raw, status, log, totals, summary>>

\* python fix_json_data.py: main found Data/Json and at least one year file in it.
StartFix ==
    /\ pc = "idle"
    /\ Existing(status["Json"]) # {}
    /\ pc' = "fix:file"
    /\ fileIdx' = 1
    /\ log' = {}
    /\ totals' = NoTotals
    /\ summary' = NoSummary
    /\ UNCHANGED <<bersihVars, jsonVars, sqlVars, resVars, addIdsVars>>
    /\ UNCHANGED <<raw, status>>

\* fix_json_file(filepath) for the next file of main's loop: the file of
\* Data/Json is loaded, filtered and dumped over itself.
FixFile ==
    /\ pc = "fix:file"
    /\ fileIdx <= NumYears
    /\ status["Json"][YearOf(fileIdx)] = "ok"
    /\ LET y == YearOf(fileIdx)
           out == fixed_data(json[y])
       IN  /\ json' = [json EXCEPT ![y] = out]
           /\ jsonFixed' = jsonFixed \cup {y}
           /\ log' = log \cup {<<"processed", y>>}
           /\ totals' = [entries |-> totals.entries + Len(out),
                         removed |-> totals.removed + (Len(json[y]) - Len(out))]
    /\ fileIdx' = fileIdx + 1
    /\ UNCHANGED <<bersihVars, sqlVars, resVars, addIdsVars>>
    /\ UNCHANGED <<raw, status, pc, summary>>

\* main: the loop over json_files is over; the summary is printed, with
\* len(json_files) as the number of files.
FixFinish ==
    /\ pc = "fix:file"
    /\ fileIdx > NumYears
    /\ pc' = "idle"
    /\ fileIdx' = 0
    /\ summary' = [stage |-> "fix", entries |-> totals.entries, removed |-> totals.removed,
                   files |-> Cardinality(Existing(status["Json"])), countries |-> 0]
    /\ totals' = NoTotals
    /\ UNCHANGED <<bersihVars, jsonVars, sqlVars, resVars, addIdsVars>>
    /\ UNCHANGED <<raw, status, log>>

\* "Data Generate Dml"/generate_dml_from_json.py, main: load every year file
\* of Data/Json_Bersih, generate_dml, write DML_whr_v2_generated.sql.
EmitDml ==
    /\ pc = "idle"
    /\ Existing(status["Json_Bersih"]) # {}
    /\ LET all_data == Loaded(files, status["Json_Bersih"])
       IN  IF DOMAIN all_data = {}
           THEN /\ log' = {<<"no data", 0>>}
                /\ sql' = sql
           ELSE /\ log' = {<<"loaded", y>> : y \in DOMAIN all_data}
                /\ sql' = generate_dml(all_data)
    /\ pc' = "done"
    /\ UNCHANGED <<bersihVars, jsonVars, resVars, addIdsVars>>
    /\ UNCHANGED <<raw, status, fileIdx, totals, summary, sql_complete>>

\* Data_Generate_Dml/generate_dml_from_json.py, main: generate_dml() with the
\* generator seeded by the system, write DML_whr_v2_complete.sql.
EmitComplete ==
    /\ pc = "idle"
    /\ \E seed \in 0..(NumSeeds - 1) :
          sql_complete' = dense_generate_dml(Loaded(files, status["Json_Bersih"]), seed)
    /\ log' = {<<"loaded", y>> : y \in DOMAIN Loaded(files, status["Json_Bersih"])}
    /\ pc' = "done"
    /\ UNCHANGED <<bersihVars, jsonVars, resVars, addIdsVars>>
    /\ UNCHANGED <<raw, status, fileIdx, totals, summary, sql>>

Next ==
    \/ StartAddIds
    \/ AddIdsLoad
    \/ AddIdsEntry
    \/ AddIdsWrite
    \/ AddIdsFinish
    \/ StartClean
    \/ CleanFile
    \/ CleanFinish
    \/ StartFix
    \/ FixFile
    \/ FixFinish
    \/ EmitDml
    \/ EmitComplete

Spec == Init /\ [][Next]_vars

\* ------------------------------------- missing files and interrupted writes
\* the largest corpus the runs with faults start from
MaxFaultCorpus == 1

\* What open(filepath, 'w') followed by json.dump(data, f) leaves on disk when
\* the process ends before the dump does: the first k records of data and no
\* closing bracket.
Prefixes(new) == {SubSeq(new, 1, k) : k \in 0..Len(new)}

\* Year files that are not there or that json.load cannot read: no year, one
\* year, or all of them, in both directories.
FaultStatuses ==
    {AllOk}
    \cup {[d \in {"Json_Bersih", "Json"} |-> [y \in Years |-> how]] :
                 how \in {"missing", "torn"}}
    \cup {[d \in {"Json_Bersih", "Json"} |->
              [y \in Years |-> IF y = bad THEN how ELSE "ok"]] :
                 bad \in Years, how \in {"missing", "torn"}}

InitFaults ==
    /\ \E corpus \in {c \in Corpora : TotalLen(c, Years) <= MaxFaultCorpus} :
          InitDirs(corpus)
    /\ status \in FaultStatuses
    /\ InitRest

\* add_ids.process_files: os.path.exists(filepath) is false.
AddIdsSkip ==
    /\ pc = "add_ids:file"
    /\ fileIdx <= NumYears
    /\ status["Json_Bersih"][YearOf(fileIdx)] = "missing"
    /\ log' = log \cup {<<"not found", YearOf(fileIdx)>>}
    /\ fileIdx' = fileIdx + 1
    /\ UNCHANGED <<bersihVars, jsonVars, sqlVars, resVars, addIdsVars>>
    /\ UNCHANGED <<raw, status, pc, totals, summary>>

\* add_ids.process_files: json.load raises, the except branch prints.
AddIdsUnloadable ==
    /\ pc = "add_ids:file"
    /\ fileIdx <= NumYears
    /\ status["Json_Bersih"][YearOf(fileIdx)] = "torn"
    /\ log' = log \cup {<<"error", YearOf(fileIdx)>>}
    /\ fileIdx' = fileIdx + 1
    /\ UNCHANGED <<bersihVars, jsonVars, sqlVars, resVars, addIdsVars>>
    /\ UNCHANGED <<raw, status, pc, totals, summary>>

\* add_ids.process_files: the process ends between open(filepath, 'w') and the
\* end of json.dump.
AddIdsInterrupt ==
    /\ pc = "add_ids:entry"
    /\ entryIdx > Len(data)
    /\ LET y == YearOf(fileIdx)
       IN  /\ \E part \in Prefixes(data) : files' = [files EXCEPT ![y] = part]
           /\ status' = [status EXCEPT !["Json_Bersih"][y] = "torn"]
           /\ tagged' = tagged \ {y}
           /\ cleaned' = cleaned \ {y}
           /\ lastWriter' = [lastWriter EXCEPT ![y] = "add_ids"]
    /\ pc' = "killed"
    /\ fileIdx' = 0
    /\ data' = <<>>
    /\ entryIdx' = 0
    /\ UNCHANGED <<jsonVars, sqlVars, resVars>>
    /\ UNCHANGED <<raw, COUNTRY_ID_MAP, log, totals, summary>>

\* clean_and_reorder.process_files: os.path.exists(filepath) is false.
CleanSkip ==
    /\ pc = "clean:file"
    /\ fileIdx <= NumYears
    /\ status["Json_Bersih"][YearOf(fileIdx)] = "missing"
    /\ log' = log \cup {<<"not found", YearOf(fileIdx)>>}
    /\ fileIdx' = fileIdx + 1
    /\ UNCHANGED <<bersihVars, jsonVars, sqlVars, resVars, addIdsVars>>
    /\ UNCHANGED <<raw, status, pc, totals, summary>>

\* clean_and_reorder.process_files: json.load raises, the except branch prints.
CleanUnloadable ==
    /\ pc = "clean:file"
    /\ fileIdx <= NumYears
    /\ status["Json_Bersih"][YearOf(fileIdx)] = "torn"
    /\ log' = log \cup {<<"error", YearOf(fileIdx)>>}
    /\ fileIdx' = fileIdx + 1
    /\ UNCHANGED <<bersihVars, jsonVars, sqlVars, resVars, addIdsVars>>
    /\ UNCHANGED <<raw, status, pc, totals, summary>>

\* clean_and_reorder.process_files: the process ends between
\* open(filepath, 'w') and the end of json.dump.
CleanInterrupt ==
    /\ pc = "clean:file"
    /\ fileIdx <= NumYears
    /\ status["Json_Bersih"][YearOf(fileIdx)] = "ok"
    /\ LET y == YearOf(fileIdx)
       IN  /\ \E part \in Prefixes(clean_file(files[y])) :
                 files' = [files EXCEPT ![y] = part]
           /\ status' = [status EXCEPT !["Json_Bersih"][y] = "torn"]
           /\ lastWriter' = [lastWriter EXCEPT ![y] = "clean"]
    /\ pc' = "killed"
    /\ fileIdx' = 0
    /\ UNCHANGED <<jsonVars, sqlVars, resVars, addIdsVars>>
    /\ UNCHANGED <<raw, tagged, cleaned, log, totals, summary>>

\* fix_json_data.main: Data/Json holds no year file; main prints and returns.
FixNoFiles ==
    /\ pc = "idle"
    /\ Existing(status["Json"]) = {}
    /\ log' = {<<"no files", 0>>}
    /\ summary' = NoSummary
    /\ UNCHANGED <<bersihVars, jsonVars, sqlVars, resVars, addIdsVars>>
    /\ UNCHANGED <<raw, status, pc, fileIdx, totals>>

\* fix_json_data.main: a year with no file is not in json_files.
FixAbsent ==
    /\ pc = "fix:file"
    /\ fileIdx <= NumYears
    /\ status["Json"][YearOf(fileIdx)] = "missing"
    /\ fileIdx' = fileIdx + 1
    /\ UNCHANGED <<bersihVars, jsonVars, sqlVars, resVars, addIdsVars>>
    /\ UNCHANGED <<raw, status, pc, log, totals, summary>>

\* fix_json_file: json.load raises; the error is printed and (0, 0) returned.
FixUnloadable ==
    /\ pc = "fix:file"
    /\ fileIdx <= NumYears
    /\ status["Json"][YearOf(fileIdx)] = "torn"
    /\ log' = log \cup {<<"error", YearOf(fileIdx)>>}
    /\ fileIdx' = fileIdx + 1
    /\ UNCHANGED <<bersihVars, jsonVars, sqlVars, resVars, addIdsVars>>
    /\ UNCHANGED <<raw, status, pc, totals, summary>>

\* fix_json_file: the process ends between open(filepath, 'w') and the end of
\* json.dump.
FixInterrupt ==
    /\ pc = "fix:file"
    /\ fileIdx <= NumYears
    /\ status["Json"][YearOf(fileIdx)] = "ok"
    /\ LET y == YearOf(fileIdx)
       IN  /\ \E part \in Prefixes(fixed_data(json[y])) :
                 json' = [json EXCEPT ![y] = part]
           /\ status' = [status EXCEPT !["Json"][y] = "torn"]
    /\ pc' = "killed"
    /\ fileIdx' = 0
    /\ UNCHANGED <<bersihVars, sqlVars, resVars, addIdsVars>>
    /\ UNCHANGED <<raw, jsonFixed, log, totals, summary>>

\* "Data Generate Dml"/generate_dml_from_json.py, main: Data/Json_Bersih holds
\* no year file; load_all_json_files returns {} and main returns.
EmitDmlNoFiles ==
    /\ pc = "idle"
    /\ Existing(status["Json_Bersih"]) = {}
    /\ log' = {<<"no data", 0>>}
    /\ pc' = "done"
    /\ UNCHANGED <<bersihVars, jsonVars, sqlVars, resVars, addIdsVars>>
    /\ UNCHANGED <<raw, status, fileIdx, totals, summary>>

NextFaults ==
    \/ Next
    \/ AddIdsSkip
    \/ AddIdsUnloadable
    \/ AddIdsInterrupt
    \/ CleanSkip
    \/ CleanUnloadable
    \/ CleanInterrupt
    \/ FixNoFiles
    \/ FixAbsent
    \/ FixUnloadable
    \/ FixInterrupt
    \/ EmitDmlNoFiles

SpecFaults == InitFaults /\ [][NextFaults]_vars

\* ---------------------------------- calculate_dystopia_residual on its own
\* (country_name, ranking) pairs with md5 residues 0, 999, 700, 646, 332, 416
ResidualSeeds ==
    { <<Text("Luxembourg"), PyInt(125)>>, <<Text("Iceland"), PyInt(20)>>,
      <<Text("Switzerland"), PyInt(141)>>, <<Text("Switzerland"), PyInt(1)>>,
      <<Text("Switzerland"), PyInt(2)>>, <<Text("Denmark"), PyInt(1)>> }
\* happiness_score values; <<>> stands for a record without the field
ResidualScores ==
    { <<PyFloat(0)>>, <<PyFloat(5000)>>, <<PyFloat(5334)>>, <<PyFloat(7000)>>,
      <<PyFloat(8345)>>, <<PyFloat(-2000)>>, <<PyInt(7)>>,
      <<PyStr(<<"7", ",", "5", "6", "1">>)>>, <<PyStr(<<"5", ".", "1">>)>>,
      <<PyStr(<<"n", "/", "a">>)>>, <<PyStr(<<>>)>>, <<PyNone>>, <<>> }
\* what else a record may carry
ResidualOthers ==
    { <<>>,
      << <<"gdp_per_capita", PyFloat(1397)>>, <<"dystopia_residual", PyFloat(2517)>> >>,
      << <<"gdp_per_capita", PyStr(<<"1", ",", "3">>)>>,
         <<"dystopia_residual", PyStr(<<"0", ",", "9", "5", "0">>)>>,
         <<"country_id", PyInt(1)>> >> }
ResidualEntry(seed, score, others) ==
    << <<"ranking", seed[2]>>, <<"country_name", seed[1]>> >>
    \o (IF score = <<>> THEN <<>> ELSE << <<"happiness_score", score[1]>> >>)
    \o others
ResidualInputs ==
    {ResidualEntry(seed, score, others) :
        seed \in ResidualSeeds, score \in ResidualScores, others \in ResidualOthers}
\* the input record of the residual: (country_name, ranking, happiness_score)
ResidualKey(entry) ==
    <<Get(entry, "country_name", PyStr(<<>>)), Get(entry, "ranking", PyInt(1)),
      Has(entry, "happiness_score"), Get(entry, "happiness_score", PyStr(<<"0">>))>>

InitResidual ==
    /\ files = [y \in Years |-> <<>>]
    /\ json = files
    /\ status = AllOk
    /\ jsonFixed = {}
    /\ log = {}
    /\ totals = NoTotals
    /\ summary = NoSummary
    /\ raw = files
    /\ pc = "residual"
    /\ fileIdx = 0
    /\ data = <<>>
    /\ entryIdx = 0
    /\ COUNTRY_ID_MAP = EmptyMap
    /\ tagged = {}
    /\ cleaned = {}
    /\ lastWriter = [y \in Years |-> "ingest"]
    /\ sql = NoSql
    /\ sql_complete = NoSql
    /\ resEntry \in ResidualInputs
    /\ resIn = <<>>
    /\ resOut = <<>>

\* One call of calculate_dystopia_residual(entry); the next call is given a
\* record with the same country_name, ranking and happiness_score.
ResidualCall ==
    /\ pc = "residual"
    /\ Len(resOut) < MaxCalls
    /\ resIn' = Append(resIn, resEntry)
    /\ resOut' = Append(resOut, calculate_dystopia_residual(resEntry))
    /\ resEntry' \in {e \in ResidualInputs : ResidualKey(e) = ResidualKey(resEntry)}
    /\ UNCHANGED <<bersihVars, jsonVars, sqlVars, addIdsVars>>
    /\ UNCHANGED <<raw, status, pc, fileIdx, log, totals, summary>>

NextResidual == ResidualCall

SpecResidual == InitResidual /\ [][NextResidual]_vars

\* ------------------------------------- clean_and_reorder_entry on its own
\* a field no entry of FIELD_ORDER names
ExtraPair == <<"year", PyInt(FirstYear)>>
\* the fields a record may come without
Droppable ==
    {"region_name", "gdp_per_capita", "dystopia_residual", "region_id", "perception_id"}
Without(entry, ks) == SelectSeq(entry, LAMBDA pair : pair[1] \notin ks)
Reverse(q) == [i \in 1..Len(q) |-> q[Len(q) + 1 - i]]
\* the same pairs in the order given, reversed, and with the extra field
\* first or last
Shapes(entry) ==
    {entry, Reverse(entry), <<ExtraPair>> \o entry, Append(Reverse(entry), ExtraPair)}
\* Records as the ingestor and as add_ids.py write them, without up to two of
\* their fields, in the four shapes.
NormalizerInputs ==
    UNION {Shapes(Without(base, {k1, k2})) :
              base \in SampleEntries \cup {add_ids_to_entry(EmptyMap, e) : e \in SampleEntries},
              k1 \in Droppable \cup {"none"}, k2 \in Droppable \cup {"none"}}

InitNormalize ==
    /\ files = [y \in Years |-> <<>>]
    /\ json = files
    /\ status = AllOk
    /\ jsonFixed = {}
    /\ log = {}
    /\ totals = NoTotals
    /\ summary = NoSummary
    /\ raw = files
    /\ pc = "normalize"
    /\ fileIdx = 0
    /\ data = <<>>
    /\ entryIdx = 0
    /\ COUNTRY_ID_MAP = EmptyMap
    /\ tagged = {}
    /\ cleaned = {}
    /\ lastWriter = [y \in Years |-> "ingest"]
    /\ sql = NoSql
    /\ sql_complete = NoSql
    /\ resEntry \in NormalizerInputs
    /\ resIn = <<>>
    /\ resOut = <<>>

\* One call of clean_and_reorder_entry(entry); the next call is given the
\* record this one returned.
NormalizeCall ==
    /\ pc = "normalize"
    /\ Len(resOut) < MaxCalls
    /\ resIn' = Append(resIn, resEntry)
    /\ resOut' = Append(resOut, clean_and_reorder_entry(resEntry))
    /\ resEntry' = clean_and_reorder_entry(resEntry)
    /\ UNCHANGED <<bersihVars, jsonVars, sqlVars, addIdsVars>>
    /\ UNCHANGED <<raw, status, pc, fileIdx, log, totals, summary>>

NextNormalize == NormalizeCall

SpecNormalize == InitNormalize /\ [][NextNormalize]_vars

\* ---------------------------- fix_json_file on clean_and_reorder's output
\* the state of everything but the function that is called on its own
InitOnItsOwn(where) ==
    /\ files = [y \in Years |-> <<>>]
    /\ json = files
    /\ status = AllOk
    /\ jsonFixed = {}
    /\ log = {}
    /\ totals = NoTotals
    /\ summary = NoSummary
    /\ raw = files
    /\ pc = where
    /\ fileIdx = 0
    /\ data = <<>>
    /\ entryIdx = 0
    /\ COUNTRY_ID_MAP = EmptyMap
    /\ tagged = {}
    /\ cleaned = {}
    /\ lastWriter = [y \in Years |-> "ingest"]
    /\ sql = NoSql
    /\ sql_complete = NoSql
    /\ resIn = <<>>
    /\ resOut = <<>>

\* Records as clean_and_reorder.py writes them, and the same records with a
\* decimal-comma text for healthy_life_expectancy.
FilterInputs ==
    LET cleanedEntries == {clean_and_reorder_entry(e) : e \in NormalizerInputs}
    IN  cleanedEntries \cup
        {Put(e, "healthy_life_expectancy", PyStr(<<"0", ",", "9", "4", "1">>)) :
            e \in cleanedEntries}

InitFilter ==
    /\ InitOnItsOwn("filter")
    /\ resEntry \in FilterInputs

\* fix_json_file on a file of one record; the next call is given the file
\* this one wrote, if it kept the record.
FilterCall ==
    /\ pc = "filter"
    /\ Len(resOut) < MaxCalls
    /\ resIn' = Append(resIn, resEntry)
    /\ resOut' = Append(resOut, fixed_data(<<resEntry>>))
    /\ resEntry' = IF fixed_data(<<resEntry>>) = <<>> THEN resEntry
                   ELSE fixed_data(<<resEntry>>)[1]
    /\ UNCHANGED <<bersihVars, jsonVars, sqlVars, addIdsVars>>
    /\ UNCHANGED <<raw, status, pc, fileIdx, log, totals, summary>>

NextFilter == FilterCall

SpecFilter == InitFilter /\ [][NextFilter]_vars

\* ------------------------------------------------ csv_to_json_converter.py
\* the largest number of rows of a CSV file
MaxRows == 2

CSV_TO_JSON_MAPPING ==
    << <<"Ranking", "ranking">>, <<"Country", "country_name">>,
       <<"Regional indicator", "region_name">>,
       <<"Happiness score", "happiness_score">>,
       <<"GDP per capita", "gdp_per_capita">>,
       <<"Social support", "social_support">>,
       <<"Healthy life expectancy", "healthy_life_expectancy">>,
       <<"Freedom to make life choices", "freedom_to_make_life_choices">>,
       <<"Generosity", "generosity">>,
       <<"Perceptions of corruption", "perceptions_of_corruption">> >>

\* float('nan')
PyNaN == [t |-> "float", n |-> 0, s |-> <<"nan">>]

\* str.strip() of a text whose blanks are tokens " "
RECURSIVE Strip(_)
Strip(q) ==
    IF q # <<>> /\ Head(q) = " " THEN Strip(Tail(q))
    ELSE IF q # <<>> /\ q[Len(q)] = " " THEN Strip(SubSeq(q, 1, Len(q) - 1))
    ELSE q

\* parse_number(value): a cell of a short row is None
parse_number(value) ==
    IF value = PyNone \/ Strip(StrOf(value)) = <<>> THEN PyFloat(0)
    ELSE LET text == Replace(Strip(StrOf(value)), ",", ".")
         IN  IF text = <<"n", "a", "n">> THEN PyNaN
             ELSE IF ParseFloat(text).ok THEN PyFloat(ParseFloat(text).v)
             ELSE PyFloat(0)

\* int(parse_number(value)) of the Ranking cell raises ValueError on nan
row_raises(row) ==
    Has(row, "Ranking") /\ parse_number(Get(row, "Ranking", PyNone)) = PyNaN

\* process_csv_file, the loop over CSV_TO_JSON_MAPPING from position i: the
\* fields of the columns the row has
RECURSIVE csv_entry_from(_, _)
csv_entry_from(row, i) ==
    IF i > Len(CSV_TO_JSON_MAPPING) THEN <<>>
    ELSE LET csv_col == CSV_TO_JSON_MAPPING[i][1]
             json_field == CSV_TO_JSON_MAPPING[i][2]
             value == Get(row, csv_col, PyNone)
         IN  (IF ~Has(row, csv_col) THEN <<>>
              ELSE IF json_field = "ranking"
              THEN <<<<json_field, PyInt(parse_number(value).n \div 1000)>>>>
              ELSE IF json_field \in {"country_name", "region_name"}
              THEN <<<<json_field, PyStr(Strip(StrOf(value)))>>>>
              ELSE <<<<json_field, parse_number(value)>>>>)
             \o csv_entry_from(row, i + 1)

\* calculate_dystopia_residual of csv_to_json_converter.py on the fields of
\* an entry; min(3.0, nan) is 3.0
csv_dystopia_residual(entry) ==
    LET num(k) == Get(entry, k, PyInt(0))
        factors == {"gdp_per_capita", "social_support", "healthy_life_expectancy",
                    "freedom_to_make_life_choices", "generosity",
                    "perceptions_of_corruption"}
        RECURSIVE Sum(_)
        Sum(S) == IF S = {} THEN 0
                  ELSE LET k == CHOOSE x \in S : TRUE
                       IN  num(k).n + Sum(S \ {k})
        residual == num("happiness_score").n - Sum(factors) - 1850
    IN  IF \E k \in factors \cup {"happiness_score"} : num(k) = PyNaN
        THEN PyFloat(3000)
        ELSE PyFloat(Max(100, Min(3000, Abs(residual))))

\* the entry process_csv_file builds from a row
csv_entry(row) ==
    Pick({ Append(e, <<"dystopia_residual", csv_dystopia_residual(e)>>)
           : e \in {csv_entry_from(row, 1)} })

\* entries.sort(key=lambda x: x.get('ranking', 999)): a stable sort
RECURSIVE sort_by_ranking(_)
sort_by_ranking(entries) ==
    IF entries = <<>> THEN <<>>
    ELSE LET key(e) == Get(e, "ranking", PyInt(999)).n
             last == entries[Len(entries)]
             front == sort_by_ranking(SubSeq(entries, 1, Len(entries) - 1))
             before == SelectSeq(front, LAMBDA e : key(e) <= key(last))
             after == SelectSeq(front, LAMBDA e : key(e) > key(last))
         IN  before \o <<last>> \o after

\* process_csv_file, the loop over the rows from position i, with the
\* entries appended so far: an exception ends the loop and skips the sort
RECURSIVE csv_rows_from(_, _, _)
csv_rows_from(rows, i, entries) ==
    IF i > Len(rows) THEN sort_by_ranking(entries)
    ELSE IF row_raises(rows[i]) THEN entries
    ELSE Pick({ csv_rows_from(rows, i + 1,
                    IF Get(e, "country_name", PyStr(<<>>)).s # <<>>
                    THEN Append(entries, e) ELSE entries)
                : e \in {csv_entry(rows[i])} })

\* process_csv_file(csv_path, year): a file that cannot be opened gives []
process_csv_file(csv) ==
    IF ~csv.opens THEN <<>> ELSE csv_rows_from(csv.rows, 1, <<>>)

\* a row of a CSV file: the cells of the columns of the header; the cell of
\* a short row is None
CsvRow(ranking, country) ==
    << <<"Ranking", ranking>>, <<"Country", country>>,
       <<"Happiness score",
         IF country = PyNone THEN PyNone ELSE PyStr(<<"7", ",", "5", "8", "7">>)>> >>
\* Rows with a name between blanks, a name, a ranking that int() rejects, and
\* a Country cell that is empty, blank or absent.
CsvRows ==
    { CsvRow(PyStr(<<"2">>), PyStr(<<" ", "Switzerland", " ">>)),
      CsvRow(PyStr(<<"1">>), Text("Iceland")),
      CsvRow(PyStr(<<"n", "a", "n">>), Text("Denmark")),
      CsvRow(PyStr(<<"3">>), PyStr(<<>>)),
      CsvRow(PyStr(<<"3">>), PyStr(<<" ", " ">>)),
      CsvRow(PyStr(<<"3">>), PyNone) }
\* Year CSV files: not there; there and not readable; rows of a header with
\* and of a header without the Country column.
CsvFiles ==
    { [exists |-> FALSE, opens |-> FALSE, rows |-> <<>>],
      [exists |-> TRUE, opens |-> FALSE, rows |-> <<>>] }
    \cup {[exists |-> TRUE, opens |-> TRUE, rows |-> rows] :
              rows \in SeqsUpTo(CsvRows, MaxRows)}
    \cup {[exists |-> TRUE, opens |-> TRUE,
           rows |-> [i \in 1..Len(rows) |-> Without(rows[i], {"Country"})]] :
              rows \in SeqsUpTo(CsvRows, MaxRows)}
\* the year files that follow the first
CsvFollowUps ==
    { [exists |-> FALSE, opens |-> FALSE, rows |-> <<>>],
      [exists |-> TRUE, opens |-> FALSE, rows |-> <<>>],
      [exists |-> TRUE, opens |-> TRUE,
       rows |-> <<CsvRow(PyStr(<<"1">>), Text("Iceland"))>>] }

InitIngest ==
    /\ InitOnItsOwn("ingest")
    /\ resEntry \in CsvFiles

\* main, the loop body for one year: a CSV that is not there is skipped; the
\* entries of process_csv_file are written if there are any.  resOut gets
\* the artifact as a list of one file, or the empty list.
IngestCall ==
    /\ pc = "ingest"
    /\ Len(resOut) < MaxCalls
    /\ resIn' = Append(resIn, resEntry)
    /\ resOut' = Append(resOut,
                    IF resEntry.exists /\ process_csv_file(resEntry) # <<>>
                    THEN <<process_csv_file(resEntry)>> ELSE <<>>)
    /\ resEntry' \in CsvFollowUps
    /\ UNCHANGED <<bersihVars, jsonVars, sqlVars, addIdsVars>>
    /\ UNCHANGED <<raw, status, pc, fileIdx, log, totals, summary>>

NextIngest == IngestCall

SpecIngest == InitIngest /\ [][NextIngest]_vars

\* --------------------------------------- the emitters over year artifacts
\* the largest number of records of a year artifact given to an emitter
MaxEmitLen == 2

\* A record of a year artifact with the ids of add_ids.py; the other fields
\* are read with their defaults.
TaggedEntry(country_id, country, region_id, ranking, score) ==
    << <<"ranking", ranking>>, <<"country_name", country>>,
       <<"happiness_score", score>>, <<"region_id", region_id>>,
       <<"country_id", country_id>> >>
\* Records of year artifacts: a country_id, the same country_id with another
\* name and region_id, a second country_id, and a record without ids.
EmitEntries ==
    { TaggedEntry(PyInt(1), Text("Switzerland"), PyInt(7), PyInt(1), PyFloat(7587)),
      TaggedEntry(PyInt(1), Text("Iceland"), PyInt(0), PyInt(2),
                  PyStr(<<"7", ",", "5", "6", "1">>)),
      TaggedEntry(PyInt(2), Text("Iceland"), PyInt(7), PyInt(2), PyFloat(7561)),
      << <<"ranking", PyInt(3)>>, <<"country_name", Text("Denmark")>>,
         <<"happiness_score", PyFloat(7527)>> >> }
\* Data/Json_Bersih with two year artifacts, each a list of records (the
\* empty list included); the artifacts of later years are empty lists.
EmitCorpora ==
    { [y \in Years |-> IF y = FirstYear THEN a
                       ELSE IF y = FirstYear + 1 THEN b ELSE <<>>] :
        a \in SeqsUpTo(EmitEntries, MaxEmitLen),
        b \in SeqsUpTo(EmitEntries, MaxEmitLen) }

InitEmit ==
    /\ files \in EmitCorpora
    /\ raw = files
    /\ json = files
    /\ tagged = {}
    /\ cleaned = {}
    /\ lastWriter = [y \in Years |-> "ingest"]
    /\ status = AllOk
    /\ InitRest

NextEmit ==
    \/ EmitDml
    \/ EmitComplete

SpecEmit == InitEmit /\ [][NextEmit]_vars

\* Runs of the dense-fill emitter over one corpus that does not change: the
\* year artifacts hold at most one record each.
InitDense ==
    /\ InitOnItsOwn("dense")
    /\ resEntry \in {c \in EmitCorpora : \A y \in Years : Len(c[y]) <= 1}

\* python generate_dml_from_json.py of Data_Generate_Dml: nothing seeds the
\* random module, so the generator starts in a state the system chooses.
\* resOut gets the rows of the run.
DenseCall ==
    /\ pc = "dense"
    /\ Len(resOut) < MaxCalls
    /\ \E seed \in 0..(NumSeeds - 1) :
          resOut' = Append(resOut, dense_generate_dml(resEntry, seed))
    /\ resIn' = Append(resIn, resEntry)
    /\ resEntry' = resEntry
    /\ UNCHANGED <<bersihVars, jsonVars, sqlVars, addIdsVars>>
    /\ UNCHANGED <<raw, status, pc, fileIdx, log, totals, summary>>

NextDense == DenseCall

SpecDense == InitDense /\ [][NextDense]_vars

\* ------------------------------------------------------------------ properties
Range(q) == {q[i] : i \in 1..Len(q)}
NameOf(entry) == Get(entry, "country_name", PyStr(<<>>))
Field(entry, k) == Get(entry, k, PyNone)
AddIdsRunning == pc \in {"add_ids:file", "add_ids:entry"}
\* the entries of data that add_ids_to_entry has been applied to
DataDone == IF pc = "add_ids:entry" THEN SubSeq(data, 1, entryIdx - 1) ELSE <<>>
\* the records the present (or latest) run of add_ids.py has assigned ids to
AssignedRecords == UNION {Range(files[y]) : y \in tagged} \cup Range(DataDone)

\* C1: within one run of add_ids.py, any two records that carry the same
\* country_name carry the same country_id, whatever year file they are in.
C1_SameNameSameId ==
    \A e1 \in AssignedRecords, e2 \in AssignedRecords :
        NameOf(e1) = NameOf(e2) => Field(e1, "country_id") = Field(e2, "country_id")
\* a finished run in which one country occurs in two year files
C1_Witness ==
    /\ pc = "idle"
    /\ tagged = Years
    /\ \A y \in Years : lastWriter[y] = "add_ids"
    /\ \E y1 \in Years, y2 \in Years :
          /\ y1 # y2
          /\ \E i \in 1..Len(files[y1]), j \in 1..Len(files[y2]) :
                NameOf(files[y1][i]) = NameOf(files[y2][j])

\* the report_id values of a batch of rows
ReportIds(rows) == {rows[i].report_id : i \in 1..Len(rows)}
\* every foreign key of the six batches is a key of the batch it refers to
ReferentiallyComplete(out) ==
    /\ ReportIds(out.economic_indicator) \subseteq ReportIds(out.happiness_report)
    /\ ReportIds(out.social_indicator) \subseteq ReportIds(out.happiness_report)
    /\ ReportIds(out.perception_indicator) \subseteq ReportIds(out.happiness_report)
    /\ \A i \in 1..Len(out.happiness_report) :
          \E j \in 1..Len(out.country) :
             out.country[j].country_id = out.happiness_report[i].country_id
    /\ \A j \in 1..Len(out.country) :
          /\ out.country[j].region_id.t = "int"
          /\ out.country[j].region_id.n \in 1..10
          /\ \E k \in 1..Len(out.region) :
                out.region[k].region_id = out.country[j].region_id.n
\* the year files are id-tagged and have been through fix_json_data since
IdTaggedAndCleaned == tagged = Years /\ cleaned = Years

\* C2: in the SQL emitted from cleaned, id-tagged year files every satellite
\* row's report_id is one of the happiness_report batch, every happiness_report
\* row's country_id is one of the country batch, and every country row's
\* region_id is one of the ten of the region batch.
C2_ReferentiallyComplete ==
    (pc = "done" /\ IdTaggedAndCleaned) =>
        /\ sql # NoSql => ReferentiallyComplete(sql)
        /\ sql_complete # NoSql => ReferentiallyComplete(sql_complete)
\* rows were emitted from a corpus that lost a record of region 0
C2_Witness ==
    /\ pc = "done"
    /\ IdTaggedAndCleaned
    /\ sql # NoSql
    /\ Len(sql.happiness_report) >= 1
    /\ Len(sql.perception_indicator) >= 1
    /\ \E y \in Years : Len(files[y]) < Len(raw[y])

\* the (country_id, year) pairs of a batch of happiness_report rows
CountryYear(row) == <<row.country_id, row.year>>
NoRepeatedCountryYear(rows) ==
    \A i \in 1..Len(rows), j \in 1..Len(rows) :
        i # j => CountryYear(rows[i]) # CountryYear(rows[j])

\* C3: whatever the corpus holds, the dense-fill emitter writes exactly
\* (number of countries) x (number of years) rows into each of happiness_report,
\* economic_indicator, social_indicator and perception_indicator, and no two
\* happiness_report rows share a (country_id, year).
C3_DenseFill ==
    sql_complete # NoSql =>
        /\ Len(sql_complete.happiness_report) = Len(COUNTRIES) * Len(YEARS)
        /\ Len(sql_complete.economic_indicator) = Len(COUNTRIES) * Len(YEARS)
        /\ Len(sql_complete.social_indicator) = Len(COUNTRIES) * Len(YEARS)
        /\ Len(sql_complete.perception_indicator) = Len(COUNTRIES) * Len(YEARS)
        /\ NoRepeatedCountryYear(sql_complete.happiness_report)
\* the corpus has a record of a country of the table in one year and no
\* record at all in another
C3_Witness ==
    /\ sql_complete # NoSql
    /\ \E y1 \in Years, y2 \in Years :
          /\ files[y2] = <<>>
          /\ \E i \in 1..Len(files[y1]), c \in 1..Len(COUNTRIES) :
                NameOf(files[y1][i]) = Text(COUNTRIES[c][2])

\* region_name is one of the ten names of the table of add_ids.py
RegionNameKnown(entry) ==
    \E r \in {"South Asia", "Central and Eastern Europe", "Sub-Saharan Africa",
              "Latin America and Caribbean", "Commonwealth of Independent States",
              "North America and ANZ", "Western Europe", "Southeast Asia",
              "East Asia", "Middle East and North Africa"} :
        Get(entry, "region_name", PyStr(<<>>)) = Text(r)
HasRegionZero(entry) == Field(entry, "region_id") = PyInt(0)
HasRegionNonZero(entry) == ~HasRegionZero(entry)
\* what identifies a record across the rewrite of fix_json_data
Identity(entry) ==
    <<Field(entry, "country_name"), Field(entry, "ranking"),
      Field(entry, "region_id"), Field(entry, "country_id"),
      Field(entry, "report_id")>>
Identities(entries) == [i \in 1..Len(entries) |-> Identity(entries[i])]
\* the records add_ids.py has written and nothing has rewritten since
WrittenByAddIds ==
    UNION {Range(files[y]) : y \in {x \in tagged : lastWriter[x] = "add_ids"}}
        \cup Range(DataDone)
C4_State ==
    /\ \A e \in WrittenByAddIds : ~RegionNameKnown(e) => HasRegionZero(e)
    /\ \A y \in jsonFixed : \A i \in 1..Len(json[y]) : HasRegionNonZero(json[y][i])
\* a step of fix_json_data over one file keeps the records whose region_id
\* is not 0, in their order, and no others
C4_Step ==
    (pc = "fix:file" /\ fileIdx' = fileIdx + 1) =>
        LET y == YearOf(fileIdx)
        IN  Identities(json'[y]) = Identities(SelectSeq(json[y], HasRegionNonZero))

\* C4: a record whose region_name is not one of the ten known names gets
\* region_id 0 from add_ids.py and no error; after fix_json_data no record
\* with region_id 0 is left in a file, and every record with another region_id
\* is still there.
C4_UnmappedRegionDropped == [](C4_State) /\ [][C4_Step]_vars
\* a tagged file that held a record of region 0 next to another has been
\* through fix_json_data
C4_Witness ==
    \E y \in jsonFixed :
        /\ Len(raw[y]) = 2
        /\ Len(json[y]) = 1
        /\ Field(json[y][1], "country_id").t = "int"

\* C5: fix_json_data applied to a file it has already written gives the same
\* file: the output of the filter is a fixed point of the filter.
C5_FilterIdempotent ==
    \A y \in jsonFixed : fixed_data(json[y]) = json[y]
\* a filtered file that holds a decimal text with a point where the input had
\* a comma, and that lost a record of region 0
C5_Witness ==
    \E y \in jsonFixed :
        /\ Len(json[y]) < Len(raw[y])
        /\ \E i \in 1..Len(json[y]) :
              /\ Field(json[y][i], "dystopia_residual").t = "str"
              /\ "." \in Range(Field(json[y][i], "dystopia_residual").s)

\* the number a residual text stands for, in thousandths; -1 if it is none
ResidualValue(v) ==
    IF v.t = "str" /\ ParseFloat(Replace(v.s, ",", ".")).ok
    THEN ParseFloat(Replace(v.s, ",", ".")).v
    ELSE -1

\* C6: the residual calculate_dystopia_residual returns depends on the
\* record's country_name, ranking and happiness_score only, and is a number
\* between 0.05 and 0.95 for every record, one with an unparseable
\* happiness_score included.
C6_ResidualDeterminedAndBounded ==
    /\ \A i \in 1..Len(resOut) :
          /\ ResidualValue(resOut[i]) >= 50
          /\ ResidualValue(resOut[i]) <= 950
    /\ \A i \in 1..Len(resOut), j \in 1..Len(resOut) :
          ResidualKey(resIn[i]) = ResidualKey(resIn[j]) => resOut[i] = resOut[j]
\* two records that differ outside the three fields were passed, and their
\* score puts the unclamped value above the upper limit
C6_Witness ==
    /\ Len(resOut) >= 2
    /\ resIn[1] # resIn[2]
    /\ ResidualKey(resIn[1]) = ResidualKey(resIn[2])
    /\ Get(resIn[1], "happiness_score", PyNone) = PyFloat(8345)
    /\ resOut[1] = PyStr(<<"0", ",", "9", "5", "0">>)
\* a record whose happiness_score is not a number was passed
C6_WitnessUnparseable ==
    /\ Len(resOut) >= 1
    /\ Get(resIn[1], "happiness_score", PyNone) = PyStr(<<"n", "/", "a">>)

\* report_id of the i-th row is 10000 + i, and the rows go by ascending
\* country_id and, within a country, ascending year
NumberedInOrder(rows) ==
    /\ \A i \in 1..Len(rows) : rows[i].report_id = 10000 + i
    /\ \A i \in 1..Len(rows), j \in 1..Len(rows) :
          i < j => \/ rows[i].country_id < rows[j].country_id
                   \/ /\ rows[i].country_id = rows[j].country_id
                      /\ rows[i].year < rows[j].year

\* C7: the report_id values an emitter writes are 10001, 10002, ...,
\* 10000 + K for its K happiness_report rows, without gap or repeat, handed
\* out in ascending country_id and then ascending year.
C7_ReportIdsConsecutive ==
    /\ NumberedInOrder(sql.happiness_report)
    /\ NumberedInOrder(sql_complete.happiness_report)
\* the corpus-driven emitter wrote rows for two countries
C7_Witness ==
    /\ pc = "done"
    /\ Len(sql.happiness_report) >= 2
    /\ sql.happiness_report[1].country_id # sql.happiness_report[2].country_id
\* the dense-fill emitter wrote its rows
C7_WitnessDense ==
    /\ pc = "done"
    /\ Len(sql_complete.happiness_report) >= 2

\* the record with every per-record id that add_ids.py computed set to v
RecordIdFields == {"report_id", "economic_id", "social_id", "perception_id"}
WithRecordIds(entry, v) ==
    [i \in 1..Len(entry) |->
        IF entry[i][1] \in RecordIdFields THEN <<entry[i][1], v>> ELSE entry[i]]
CorpusWithRecordIds(disk, v) ==
    [y \in DOMAIN disk |-> [i \in 1..Len(disk[y]) |-> WithRecordIds(disk[y][i], v)]]

\* C8: the ids the emitter writes do not depend on the report_id,
\* economic_id, social_id and perception_id of the records: two corpora that
\* differ in those four fields only give the same rows.
C8_RecordIdsIgnored ==
    (pc = "done" /\ sql # NoSql) =>
        \A v \in {PyInt(0), PyInt(10001), PyNone, PyStr(<<"x">>)} :
            generate_dml(CorpusWithRecordIds(files, v)) = sql
\* rows were emitted from records that carry the ids of add_ids.py
C8_Witness ==
    /\ pc = "done"
    /\ tagged = Years
    /\ Len(sql.happiness_report) >= 1
    /\ \E y \in Years : \E i \in 1..Len(files[y]) :
          /\ Field(files[y][i], "report_id").t = "int"
          /\ Field(files[y][i], "perception_id").t = "int"

\* the names of a list of records, and of the year files of the run so far
NamesOf(entries) == [i \in 1..Len(entries) |-> NameOf(entries[i])]
RECURSIVE NamesOfYears(_)
NamesOfYears(i) ==
    IF i > NumYears THEN <<>>
    ELSE (IF YearOf(i) \in tagged THEN NamesOf(files[YearOf(i)]) ELSE <<>>)
            \o NamesOfYears(i + 1)
\* the country names in the order the run has met them
NamesMet == NamesOfYears(1) \o NamesOf(DataDone)
\* the elements of a list in the order of their first occurrence
RECURSIVE FirstOccurrences(_)
FirstOccurrences(q) ==
    IF q = <<>> THEN <<>>
    ELSE LET front == FirstOccurrences(SubSeq(q, 1, Len(q) - 1))
             last == q[Len(q)]
         IN  IF last \in Range(front) THEN front ELSE Append(front, last)
\* the registry belongs to a run whose files nothing has rewritten
RunOfAddIds ==
    /\ AddIdsRunning \/ tagged = Years
    /\ \A y \in tagged : lastWriter[y] = "add_ids"
C9_State ==
    RunOfAddIds =>
        LET met == FirstOccurrences(NamesMet)
        IN  /\ DOMAIN COUNTRY_ID_MAP = Range(met)
            /\ \A k \in 1..Len(met) : COUNTRY_ID_MAP[met[k]] = k
            /\ \A e \in AssignedRecords :
                  Field(e, "country_id") = PyInt(COUNTRY_ID_MAP[NameOf(e)])
\* inside a run the id of a registered name stays what it is
C9_Step ==
    (AddIdsRunning /\ pc' # "idle") =>
        \A nm \in DOMAIN COUNTRY_ID_MAP :
            nm \in DOMAIN COUNTRY_ID_MAP' /\ COUNTRY_ID_MAP'[nm] = COUNTRY_ID_MAP[nm]

\* C9: add_ids.py hands out country ids in the order the names are first met,
\* from 1 and without gaps: the k-th distinct name of the run has id k, two
\* names never share an id, and a name's id is not changed later in the run.
C9_FirstEncounterOrder == [](C9_State) /\ [][C9_Step]_vars
\* the second file of a run is being processed and a second name has been
\* registered
C9_Witness ==
    /\ pc = "add_ids:entry"
    /\ fileIdx = 2
    /\ entryIdx > 1
    /\ Cardinality(DOMAIN COUNTRY_ID_MAP) = 2
    /\ tagged # {}

\* rows of one batch with the same (country_id, year) have the same report_id
OneReportIdPerCountryYear(rows) ==
    \A i \in 1..Len(rows), j \in 1..Len(rows) :
        CountryYear(rows[i]) = CountryYear(rows[j]) =>
            rows[i].report_id = rows[j].report_id

\* C10: within one pipeline run each (country_id, year) has exactly one
\* report_id: no year file written by add_ids.py and no happiness_report
\* batch written by an emitter holds two records with the same country_id and
\* year and different report_ids.
C10_OneReportIdPerCountryYear ==
    /\ \A y \in tagged :
          lastWriter[y] = "add_ids" =>
              \A i \in 1..Len(files[y]), j \in 1..Len(files[y]) :
                  Field(files[y][i], "country_id") = Field(files[y][j], "country_id")
                      => Field(files[y][i], "report_id") = Field(files[y][j], "report_id")
    /\ OneReportIdPerCountryYear(sql.happiness_report)
    /\ OneReportIdPerCountryYear(sql_complete.happiness_report)

\* every year file of Data/Json_Bersih was last written by add_ids.py
AllWrittenByAddIds == \A y \in Years : lastWriter[y] = "add_ids"
\* the step of process_files that dumps data over the file it was read from
AddIdsWriteStep == pc = "add_ids:entry" /\ pc' = "add_ids:file"

\* C11: when add_ids.py runs again, with a fresh registry, over the year files
\* a run of add_ids.py wrote, every file it dumps is equal to the file that
\* was there: the six id fields are overwritten with the values they had.
C11_RerunChangesNothing ==
    [][(AddIdsWriteStep /\ AllWrittenByAddIds) => files' = files]_vars
\* a second run has dumped a file with a record in it, and the files still
\* ahead of it are those the run before it wrote
C11_Witness ==
    /\ pc = "add_ids:file"
    /\ fileIdx > 1
    /\ fileIdx <= NumYears
    /\ AllWrittenByAddIds
    /\ Len(files[YearOf(fileIdx - 1)]) >= 1
    /\ Cardinality(DOMAIN COUNTRY_ID_MAP) >= 1

\* what the stage that is running puts in the place of a year file
BersihOutputs(y) ==
    (IF pc = "add_ids:entry" /\ y = YearOf(fileIdx) THEN {data} ELSE {})
        \cup (IF pc = "clean:file" /\ y = YearOf(fileIdx) THEN {clean_file(files[y])} ELSE {})
JsonOutputs(y) ==
    IF pc = "fix:file" /\ y = YearOf(fileIdx) THEN {fixed_data(json[y])} ELSE {}
\* a year file that could be read before the step can be read after it, and
\* holds what it held or all of what the stage makes of it
C12_Step ==
    \A y \in Years :
        /\ status["Json_Bersih"][y] = "ok" =>
              /\ status'["Json_Bersih"][y] = "ok"
              /\ files'[y] \in {files[y]} \cup BersihOutputs(y)
        /\ status["Json"][y] = "ok" =>
              /\ status'["Json"][y] = "ok"
              /\ json'[y] \in {json[y]} \cup JsonOutputs(y)

\* C12: whenever add_ids.py, clean_and_reorder.py or fix_json_data.py stops
\* while it handles a year file, the file holds either all of what it held
\* before the stage or all of what the stage makes of it, never a part.
C12_RewriteAllOrNothing == [][C12_Step]_vars

\* no year file of Data/Json_Bersih can be loaded
CorpusMissing == DOMAIN Loaded(files, status["Json_Bersih"]) = {}

\* C13: when no year file of Data/Json_Bersih can be loaded, an emitter that
\* has run has reported it and has written no SQL; this holds for
\* DML_whr_v2_generated.sql and for DML_whr_v2_complete.sql.
C13_NoCorpusNoSql ==
    (pc = "done" /\ CorpusMissing) =>
        /\ sql = NoSql
        /\ sql_complete = NoSql
        /\ <<"no data", 0>> \in log

\* the years whose file the last stage reports as processed, and as skipped
Processed == {y \in Years : <<"processed", y>> \in log}
Reported == {y \in Years : <<"not found", y>> \in log \/ <<"error", y>> \in log}
\* the number of records in the files of the years S of a directory
RECURSIVE EntriesIn(_, _, _)
EntriesIn(dir, S, i) ==
    IF i > NumYears THEN 0
    ELSE (IF YearOf(i) \in S THEN Len(dir[YearOf(i)]) ELSE 0) + EntriesIn(dir, S, i + 1)
\* the country names in the files of the years S of a directory
CountriesIn(dir, S) == UNION {{NameOf(dir[y][i]) : i \in 1..Len(dir[y])} : y \in S}
\* add_ids.py has ended: the unreadable and the missing files are reported and
\* not processed, the others are processed, and the totals are those of the
\* processed files
C14_AddIds ==
    (pc = "idle" /\ summary.stage = "add_ids") =>
        /\ \A y \in Years :
              IF status["Json_Bersih"][y] = "ok"
              THEN y \in Processed
              ELSE y \notin Processed /\ y \in Reported
        /\ summary.entries = EntriesIn(files, Processed, 1)
        /\ summary.countries = Cardinality(CountriesIn(files, Processed))
\* fix_json_data.py has ended: the unreadable files are reported and not
\* processed, the readable ones are processed, and the totals and the number
\* of files are those of the processed files
C14_Fix ==
    (pc = "idle" /\ summary.stage = "fix") =>
        /\ \A y \in Years :
              /\ status["Json"][y] = "ok" => y \in Processed
              /\ status["Json"][y] = "torn" => y \notin Processed /\ y \in Reported
              /\ status["Json"][y] = "missing" => y \notin Processed
        /\ summary.entries = EntriesIn(json, Processed, 1)
        /\ summary.files = Cardinality(Processed)

\* C14: in add_ids.py and in fix_json_data.py a year file that is missing or
\* cannot be loaded is reported and skipped, the other files are processed,
\* and the counts of the summary (entries, files processed, unique countries)
\* are those of the files that were processed.
C14_SkipAndCount == C14_AddIds /\ C14_Fix

\* the step of fix_json_data.py over one year file
FixFileStep == pc = "fix:file" /\ fileIdx' = fileIdx + 1
\* after the step the emitters find, for the year, what fix_json_file makes of
\* the file add_ids.py and clean_and_reorder.py left for it
C15_Step ==
    FixFileStep =>
        LET y == YearOf(fileIdx)
        IN  Loaded(files', status'["Json_Bersih"])[y] = fixed_data(files[y])

\* C15: the stages work on one location: fix_json_data.py reads the year file
\* that add_ids.py and clean_and_reorder.py wrote, and what it writes for a
\* year is what the emitters load for that year.
C15_OneChain == [][C15_Step]_vars

\* the records of a directory, each with its year and its place in the file
Places(dir) == UNION {{<<y, i>> : i \in 1..Len(dir[y])} : y \in Years}
\* a record without one of the six id fields (or with null in its place)
IdAbsent(dir) ==
    \E p \in Places(dir), k \in Range(ID_FIELDS) : Field(dir[p[1]][p[2]], k) = PyNone
\* one report_id on two records
ReportIdRepeated(dir) ==
    \E p \in Places(dir), q \in Places(dir) :
        /\ p # q
        /\ Field(dir[p[1]][p[2]], "report_id") # PyNone
        /\ Field(dir[p[1]][p[2]], "report_id") = Field(dir[q[1]][q[2]], "report_id")
\* one country name with two country_ids
CountryIdInconsistent(dir) ==
    \E p \in Places(dir), q \in Places(dir) :
        /\ NameOf(dir[p[1]][p[2]]) = NameOf(dir[q[1]][q[2]])
        /\ Field(dir[p[1]][p[2]], "country_id") # Field(dir[q[1]][q[2]], "country_id")
\* fix_json_data.py has gone through every year file and printed its summary
FilterEnded == pc = "idle" /\ summary.stage = "fix" /\ jsonFixed = Years

\* C16: when fix_json_data.py has processed the corpus and a record of it
\* lacks an id field, or a report_id is on two records, or a country name has
\* two country_ids, the run has reported it.
C16_IdsValidated ==
    (FilterEnded /\ (IdAbsent(json) \/ ReportIdRepeated(json) \/ CountryIdInconsistent(json)))
        => \E y \in Years : <<"invalid ids", y>> \in log

\* the pairs of a record other than the six id fields, in their order
IsOtherPair(pair) == pair[1] \notin Range(ID_FIELDS)
OtherPairs(entry) == SelectSeq(entry, IsOtherPair)
OtherPairsOf(entries) == [i \in 1..Len(entries) |-> OtherPairs(entries[i])]
\* the step of process_files that applies add_ids_to_entry to one entry: the
\* entry gets the six id fields and keeps every other pair; the other entries
\* of data are as they were
C17_EntryStep ==
    (pc = "add_ids:entry" /\ entryIdx' = entryIdx + 1) =>
        /\ Len(data') = Len(data)
        /\ \A j \in 1..Len(data) : j # entryIdx => data'[j] = data[j]
        /\ OtherPairs(data'[entryIdx]) = OtherPairs(data[entryIdx])
        /\ Range(Keys(data'[entryIdx])) = Range(Keys(data[entryIdx])) \cup Range(ID_FIELDS)
\* the step of process_files that dumps data: the file has the records it
\* had, in their order, each with the pairs it had besides the id fields
C17_WriteStep ==
    AddIdsWriteStep =>
        LET y == YearOf(fileIdx)
        IN  /\ Len(files'[y]) = Len(files[y])
            /\ OtherPairsOf(files'[y]) = OtherPairsOf(files[y])
            /\ \A x \in Years : x # y => files'[x] = files[x]

\* C17: add_ids_to_entry adds or overwrites the six id fields and nothing
\* else: every other field of the record keeps its key, value and place, and
\* add_ids.py leaves the number and the order of the records of each file as
\* they were.
C17_OnlyIdFieldsTouched == [][C17_EntryStep /\ C17_WriteStep]_vars
\* add_ids.py has dumped a file of two records that the ingestor wrote
C17_Witness ==
    \E y \in tagged :
        /\ lastWriter[y] = "add_ids"
        /\ Len(files[y]) = 2
        /\ OtherPairsOf(files[y]) = raw[y]
        /\ \A i \in 1..2 : Keys(files[y][i]) = Keys(raw[y][i]) \o ID_FIELDS

\* the fields of FIELD_ORDER a record has, with dystopia_residual, in the
\* order of FIELD_ORDER
CanonicalKeys(entry) ==
    SelectSeq(FIELD_ORDER, LAMBDA field : field = "dystopia_residual" \/ Has(entry, field))

\* C18: the record clean_and_reorder_entry returns has, in the order of
\* FIELD_ORDER, the fields of FIELD_ORDER that the record it was given has,
\* and dystopia_residual whether it was given or not: no absent field is
\* filled in and no field outside FIELD_ORDER is kept.
C18_CanonicalLayout ==
    \A i \in 1..Len(resOut) :
        pc = "normalize" => Keys(resOut[i]) = CanonicalKeys(resIn[i])
\* a call was given a record with a field outside FIELD_ORDER, without
\* region_name and without dystopia_residual, its fields not in the order of
\* FIELD_ORDER
C18_Witness ==
    /\ pc = "normalize"
    /\ \E i \in 1..Len(resOut) :
          /\ Has(resIn[i], "year")
          /\ ~Has(resIn[i], "region_name")
          /\ ~Has(resIn[i], "dystopia_residual")
          /\ Has(resIn[i], "report_id")
          /\ Keys(resIn[i])[1] = "perception_id"
          /\ Len(resOut[i]) = Len(FIELD_ORDER) - 1

\* the fields of FIELD_ORDER other than dystopia_residual
KeptFields == Range(FIELD_ORDER) \ {"dystopia_residual"}
\* a record has the fields of KeptFields another has, with the same values
SameKeptFields(e1, e2) ==
    \A field \in KeptFields :
        /\ Has(e1, field) <=> Has(e2, field)
        /\ Field(e1, field) = Field(e2, field)
\* the step of clean_and_reorder.py over one year file
C19_Step ==
    (pc = "clean:file" /\ fileIdx' = fileIdx + 1) =>
        LET y == YearOf(fileIdx)
        IN  /\ Len(files'[y]) = Len(files[y])
            /\ \A i \in 1..Len(files[y]) : SameKeptFields(files'[y][i], files[y][i])
            /\ clean_file(files'[y]) = files'[y]
            /\ \A x \in Years : x # y => files'[x] = files[x]

\* C19: clean_and_reorder.py leaves each file with the records it had, in
\* their order, each with the value it had in every field of FIELD_ORDER but
\* dystopia_residual; applied to the file it wrote it gives that file again.
C19_NormalizerPreserves == [][C19_Step]_vars
\* clean_and_reorder.py has written a file of two records of different
\* countries that carry ids, and gave them another residual than they had
C19_Witness ==
    \E y \in Years :
        /\ lastWriter[y] = "clean"
        /\ Len(files[y]) = 2
        /\ NameOf(files[y][1]) # NameOf(files[y][2])
        /\ Has(files[y][1], "report_id")
        /\ Field(files[y][1], "dystopia_residual") # Field(raw[y][1], "dystopia_residual")

\* the set of field names of a record
FieldSet(entry) == Range(Keys(entry))
\* the step of fix_json_data.py over one year file gives every record it
\* keeps the fields the record had, and no others
C20_Step ==
    FixFileStep =>
        LET y == YearOf(fileIdx)
            retained == SelectSeq(json[y], HasRegionNonZero)
        IN  /\ Len(json'[y]) = Len(retained)
            /\ \A i \in 1..Len(retained) : FieldSet(json'[y][i]) = FieldSet(retained[i])

\* C20: every record fix_json_data.py keeps is written with the set of fields
\* it was read with: the six id fields and the eleven other fields stay, and
\* no field is written that the record did not have.
C20_FilterKeepsFieldSet == [][C20_Step]_vars

\* the fields fix_json_file passes through fix_decimal_format
DECIMAL_FIELDS ==
    {"happiness_score", "gdp_per_capita", "social_support",
     "freedom_to_make_life_choices", "generosity", "perceptions_of_corruption",
     "dystopia_residual"}
\* the text b is the text a with a period wherever a has a comma
CommasToPeriods(a, b) ==
    /\ Len(b) = Len(a)
    /\ \A k \in 1..Len(a) : b[k] = (IF a[k] = "," THEN "." ELSE a[k])
\* what fix_json_file wrote for a record it kept: a text of a decimal field
\* has periods for the commas it had, another value of a decimal field and
\* healthy_life_expectancy are as they were
DecimalsFixed(before, after) ==
    /\ \A field \in DECIMAL_FIELDS :
          IF Field(before, field).t = "str"
          THEN /\ Field(after, field).t = "str"
               /\ CommasToPeriods(Field(before, field).s, Field(after, field).s)
               /\ "," \notin Range(Field(after, field).s)
          ELSE Has(before, field) => Field(after, field) = Field(before, field)
    /\ Has(before, "healthy_life_expectancy") =>
          Field(after, "healthy_life_expectancy") = Field(before, "healthy_life_expectancy")

CsvFailed(csv) ==
    csv.exists /\ (~csv.opens \/ \E i \in 1..Len(csv.rows) : row_raises(csv.rows[i]))

\* C22: in the Tabular Ingestor a year CSV that fails to open, or fails at any
\* row while being parsed, produces no output artifact for that year: it is
\* never written with only part of its rows.  The code returns the entries
\* appended before the failing row and main writes them, so this is violated.
C22_FailedYearHasNoArtifact ==
    pc = "ingest" =>
        \A i \in 1..Len(resOut) : CsvFailed(resIn[i]) => resOut[i] = <<>>

\* The Country cell of a row is a text with something between its blanks.
HasCountry(row) ==
    /\ Has(row, "Country")
    /\ Get(row, "Country", PyNone).t = "str"
    /\ Strip(Get(row, "Country", PyNone).s) # <<>>

\* C23: the Tabular Ingestor emits no record for a row whose Country is empty,
\* whitespace-only or missing (the column absent, or the cell absent in a
\* short row): every emitted record has a non-empty country_name that is the
\* trimmed Country cell of a row of the file.  The absent cell of a short
\* row becomes the name "None", so this is violated.
C23_EveryRecordNamesItsCountry ==
    pc = "ingest" =>
        \A i \in 1..Len(resOut) : resOut[i] # <<>> =>
            \A k \in 1..Len(resOut[i][1]) :
                \E r \in 1..Len(resIn[i].rows) :
                    /\ HasCountry(resIn[i].rows[r])
                    /\ Get(resOut[i][1][k], "country_name", PyNone)
                         = PyStr(Strip(Get(resIn[i].rows[r], "Country", PyNone).s))

\* The places of the records of Data/Json_Bersih that extract_countries
\* takes: a country_name and a country_id that are true.
NamedPlaces ==
    {p \in Places(files) :
        /\ Truthy(Get(files[p[1]][p[2]], "country_name", PyNone))
        /\ Truthy(Get(files[p[1]][p[2]], "country_id", PyNone))}
\* Place p comes before place q in a scan of the years in ascending order.
ScannedBefore(p, q) == p[1] < q[1] \/ (p[1] = q[1] /\ p[2] < q[2])
\* The first record with this country_id in a scan of the years.
FirstRecordOf(country_id) ==
    LET ps == {p \in NamedPlaces :
                  Get(files[p[1]][p[2]], "country_id", PyNone).n = country_id}
        first == CHOOSE p \in ps : \A q \in ps : q = p \/ ScannedBefore(p, q)
    IN  files[first[1]][first[2]]

\* C24: the corpus-driven Emitter emits exactly one country row per distinct
\* country_id, and the row carries the name and the region_id of the first
\* record with that country_id in a scan of the years in ascending order.
C24_FirstSeenCountryWins ==
    (pc = "done" /\ sql # NoSql) =>
        /\ \A i, j \in 1..Len(sql.country) :
              sql.country[i].country_id = sql.country[j].country_id => i = j
        /\ {sql.country[i].country_id : i \in 1..Len(sql.country)}
              = {Get(files[p[1]][p[2]], "country_id", PyNone).n : p \in NamedPlaces}
        /\ \A i \in 1..Len(sql.country) :
              LET first == FirstRecordOf(sql.country[i].country_id)
              IN  /\ sql.country[i].country_name
                       = escape_string(Get(first, "country_name", PyNone))
                  /\ sql.country[i].region_id = Get(first, "region_id", PyNone)
\* A country_id is in two year artifacts with different region_ids, and its
\* row is written.
C24_Witness ==
    /\ pc = "done"
    /\ Len(sql.country) > 0
    /\ \E p, q \in NamedPlaces :
          /\ p[1] < q[1]
          /\ Get(files[p[1]][p[2]], "country_id", PyNone)
               = Get(files[q[1]][q[2]], "country_id", PyNone)
          /\ Get(files[p[1]][p[2]], "region_id", PyNone)
               # Get(files[q[1]][q[2]], "region_id", PyNone)
          /\ Get(files[p[1]][p[2]], "country_name", PyNone)
               # Get(files[q[1]][q[2]], "country_name", PyNone)

\* C25: two runs of the dense-fill Emitter over the same corpus emit the same
\* rows in all tables.  The generator is never seeded by the script, so two
\* runs draw different values for a (country, year) pair that the corpus
\* lacks: this is violated.
C25_TwoRunsSameRows ==
    pc = "dense" =>
        \A i, j \in 1..Len(resOut) : resIn[i] = resIn[j] => resOut[i] = resOut[j]

\* add_ids.py has gone through every year file and printed its summary
AddIdsEnded == pc = "idle" /\ summary.stage = "add_ids" /\ AllWrittenByAddIds

\* C26: the report_id that add_ids.py derives, country_id * 1000 + ranking, is
\* unique across the records of all year files of a run: two records of
\* different countries, or of one country in different years, never have the
\* same report_id (and so never the same economic, social or perception id).
\* A country with the same ranking in two years gets one report_id twice, so
\* this is violated.
C26_ReportIdUnique ==
    AddIdsEnded =>
        \A p \in Places(files), q \in Places(files) :
            (p[1] # q[1] \/ NameOf(files[p[1]][p[2]]) # NameOf(files[q[1]][q[2]]))
                  => /\ Field(files[p[1]][p[2]], "report_id")
                         # Field(files[q[1]][q[2]], "report_id")
                     /\ Field(files[p[1]][p[2]], "economic_id")
                         # Field(files[q[1]][q[2]], "economic_id")
                     /\ Field(files[p[1]][p[2]], "social_id")
                         # Field(files[q[1]][q[2]], "social_id")
                     /\ Field(files[p[1]][p[2]], "perception_id")
                         # Field(files[q[1]][q[2]], "perception_id")

\* no value of the key field k is on two rows of the table
KeyUnique(rows, k) ==
    \A i \in 1..Len(rows), j \in 1..Len(rows) : rows[i][k] = rows[j][k] => i = j
\* the rows of the table that carry this report_id
RowsOfReport(rows, report_id) == {i \in 1..Len(rows) : rows[i].report_id = report_id}
\* The rows an emitter wrote: no primary key is on two rows of its table, and
\* each report_id has one row in each of the three satellite tables.
KeysSound(s) ==
    /\ KeyUnique(s.region, "region_id")
    /\ KeyUnique(s.country, "country_id")
    /\ KeyUnique(s.happiness_report, "report_id")
    /\ KeyUnique(s.economic_indicator, "economic_id")
    /\ KeyUnique(s.social_indicator, "social_id")
    /\ KeyUnique(s.perception_indicator, "perception_id")
    /\ \A i \in 1..Len(s.happiness_report) :
          LET report_id == s.happiness_report[i].report_id
          IN  /\ Cardinality(RowsOfReport(s.economic_indicator, report_id)) = 1
              /\ Cardinality(RowsOfReport(s.social_indicator, report_id)) = 1
              /\ Cardinality(RowsOfReport(s.perception_indicator, report_id)) = 1

\* C27: in the SQL of either Emitter no primary-key value (region_id,
\* country_id, report_id, economic_id, social_id, perception_id) is on two rows
\* of its table, whatever the corpus holds, and each report_id has exactly one
\* row in each of the three satellite tables.
C27_PrimaryKeysUnique == KeysSound(sql) /\ KeysSound(sql_complete)
\* The corpus-driven emitter has written rows of two countries and of two
\* reports.
C27_Witness ==
    /\ pc = "done"
    /\ Len(sql.country) >= 2
    /\ Len(sql.happiness_report) >= 2

\* C28: whenever the corpus-driven Emitter writes SQL, every INSERT statement
\* of it has at least one VALUES row.  When the loaded year artifacts hold no
\* record with a country_id (empty lists, or records without ids) the file is
\* written all the same, with INSERT statements that have no row, so this is
\* violated.
C28_NoEmptyInsert ==
    (pc = "done" /\ sql # NoSql) =>
        /\ Len(sql.region) > 0
        /\ Len(sql.country) > 0
        /\ Len(sql.happiness_report) > 0
        /\ Len(sql.economic_indicator) > 0
        /\ Len(sql.social_indicator) > 0
        /\ Len(sql.perception_indicator) > 0

\* The places of the records of the year with this country_id.
PlacesOfPair(country_id, year) ==
    {p \in NamedPlaces :
        p[1] = year /\ Get(files[p[1]][p[2]], "country_id", PyNone).n = country_id}
\* The (country_id, year) pairs of the id-tagged records of Data/Json_Bersih.
CorpusPairs ==
    {<<Get(files[p[1]][p[2]], "country_id", PyNone).n, p[1]>> : p \in NamedPlaces}
\* The emitter wrote one happiness_report row, and one row in each satellite
\* table, for every (country_id, year) pair of the id-tagged records and for
\* no other pair, each made from the first record of the pair in its year.
TaggedRecordsCovered ==
    /\ {CountryYear(sql.happiness_report[i]) : i \in 1..Len(sql.happiness_report)}
          = CorpusPairs
    /\ Len(sql.happiness_report) = Cardinality(CorpusPairs)
    /\ Len(sql.economic_indicator) = Cardinality(CorpusPairs)
    /\ Len(sql.social_indicator) = Cardinality(CorpusPairs)
    /\ Len(sql.perception_indicator) = Cardinality(CorpusPairs)
    /\ \A i \in 1..Len(sql.happiness_report) :
          LET row == sql.happiness_report[i]
              ps == PlacesOfPair(row.country_id, row.year)
              first == CHOOSE p \in ps : \A q \in ps : p[2] <= q[2]
              entry == files[first[1]][first[2]]
          IN  /\ row = happiness_record(row.report_id, row.country_id, row.year, entry)
              /\ sql.economic_indicator[i] = economic_record(row.report_id, entry)
              /\ sql.social_indicator[i] = social_record(row.report_id, entry)
              /\ sql.perception_indicator[i] = perception_record(row.report_id, entry)
\* Every record of the loaded corpus has the row of its year: a row with its
\* country_id and year (the row of the first record of the pair).
NoRecordDropped ==
    \A p \in Places(files) :
        \E i \in 1..Len(sql.happiness_report) :
            /\ sql.happiness_report[i].year = p[1]
            /\ PyInt(sql.happiness_report[i].country_id)
                 = Field(files[p[1]][p[2]], "country_id")

\* C29: the corpus-driven Emitter emits exactly one happiness_report row, and
\* one row in each satellite table, for every distinct (country_id, year)
\* pair of the loaded corpus and none for a pair that is absent; no record of
\* the corpus is dropped, other than later duplicates of a pair, and no row
\* is made up.  A record without a country_id is left out without a
\* message, so this is violated.
C29_StrictCoverage ==
    (pc = "done" /\ sql # NoSql) => (TaggedRecordsCovered /\ NoRecordDropped)

\* The name of the country of COUNTRIES with this id.
CountryNameOf(country_id) ==
    Text(COUNTRIES[CHOOSE i \in 1..Len(COUNTRIES) : COUNTRIES[i][1] = country_id][2])
\* The places in the year artifact of the records with this country name.
PlacesOfName(year, name) ==
    {k \in 1..Len(files[year]) : NameOf(files[year][k]) = name}
\* The happiness_report row of the dense-fill emitter carries the ranking and
\* the happiness_score of the record, the score read as a decimal in comma
\* or period form and rounded to two digits.
TakenFrom(row, entry) ==
    /\ row.ranking = safe_int(Field(entry, "ranking"), 0)
    /\ row.happiness_score = Round2(safe_float(Field(entry, "happiness_score"), 0))

\* C30: the dense-fill Emitter makes up values only for (country, year) pairs
\* that the corpus lacks: when the year artifact has a record for the country
\* name, the values of the row are taken from that record, also when they
\* are stored as decimal strings in comma or period form, and are not
\* replaced by a random draw.  float() rejects a string with a comma and the
\* value is drawn, so this is violated.
C30_FoundValuesKept ==
    (pc = "done" /\ sql_complete # NoSql) =>
        \A i \in 1..Len(sql_complete.happiness_report) :
            LET row == sql_complete.happiness_report[i]
                ks == PlacesOfName(row.year, CountryNameOf(row.country_id))
            IN  ks # {} =>
                    TakenFrom(row, files[row.year][CHOOSE k \in ks : \A j \in ks : j <= k])
====
